---- MODULE Spec2Model ----
(***************************************************************************)
(* Vehicle inventory ledger of inventory_manager.py: the transaction log   *)
(* (table inventory_transactions), the write functions that append to it   *)
(* through one SQLAlchemy session each, and the stock projections that are *)
(* computed from it.                                                       *)
(***************************************************************************)
EXTENDS Integers, Sequences, FiniteSets, TLC

\* ------------------------------------------------------------------ bounds

\* Largest number of vehicle movements (batch items written) the ledger holds in the
\* model; a transfer is one movement and two rows.
MaxItems == 2
\* Largest number of items in one submitted batch.
MaxBatch == 2
\* Largest number of consecutive calls of one read function with the same arguments.
MaxReads == 2
\* Largest number of calls made to the fulfillment workflow.
MaxCalls == 3

\* ------------------------------------------------------- master data, inputs

NULL == "NULL"

\* Table branches: Branch_ID -> Branch_Name.
Branches == {"H1", "S1"}

Branch_Name(b) ==
  IF b = "H1" THEN "Head One" ELSE IF b = "S1" THEN "Sub One" ELSE "Sub Two"

\* Table branches when the hierarchy is examined: the two branches above and one more
\* sub-dealer.
BranchTable == Branches \cup {"S2"}

\* The contents table branch_hierarchy can have: Sub_Branch_ID is its primary key, and
\* both columns refer to table branches.
Hierarchies ==
  {h \in SUBSET [Sub_Branch_ID : BranchTable, Parent_Branch_ID : BranchTable] :
     \A e1, e2 \in h : e1.Sub_Branch_ID = e2.Sub_Branch_ID => e1 = e2}

\* Table sales_records: the ids of the sales that await delivery, and an id that no
\* record has.
SaleIds == {7, 8}
UnknownSaleId == 9

\* Users of role Mechanic.
Mechanics == {"mech_a", "mech_b"}

\* What the chassis number field can hold.
ChassisNumbers == {"CH1", "CH2", ""}

\* Values of SalesRecord.fulfillment_status.
PDI_PENDING == "PDI Pending"
PDI_IN_PROGRESS == "PDI In Progress"
PDI_COMPLETE == "PDI Complete"
INSURANCE_DONE == "Insurance Done"
TR_DONE == "TR Done"

\* The dictionaries update_insurance_tr_status is given: values for some of the two
\* completion flags, or for a key that is no attribute of the record.
FlagUpdates ==
  UNION {[ks -> BOOLEAN] : ks \in SUBSET {"is_insurance_done", "is_tr_done"}}
    \cup {[k \in {"not_a_column"} |-> TRUE]}

\* A branch id that is in no row of table branches.
UnknownBranch == "X9"

\* The orders in which a query without ORDER BY can return the branches.
BranchOrders ==
  {o \in [1..Cardinality(BranchTable) -> BranchTable] :
     \A i, j \in 1..Cardinality(BranchTable) : o[i] = o[j] => i = j}

\* What the "Received From" field can hold besides a branch id.
ExternalSources == {"HMSI (OEM)"}

Models == {"Activa"}
Variants == {"STD"}
Colors == {"Red"}
Dates == {1, 2}
RemarksIn == {"rem"}
LoadNumbers == {"INV-1"}
\* Quantities of a batch item (the UI's number_input has min_value=1).
Quantities == {2, 5}
\* Signed quantities of a stock adjustment.
Deltas == {-1, 1}
Actors == {"owner1"}

\* One entry of a batch: the dict {'Model', 'Variant', 'Color', 'Quantity'}.
Items == [Model : Models, Variant : Variants, Color : Colors, Quantity : Quantities]

\* A submitted batch (the Submit button is shown for a batch that is not empty).
Batches == UNION {[1..n -> Items] : n \in 1..MaxBatch}

\* str.strip().upper() on the descriptor strings the model uses.
Upper(s) ==
  CASE s = "Activa" -> "ACTIVA"
    [] s = "Red" -> "RED"
    [] OTHER -> s

\* class TransactionType
INWARD_OEM == "HMSI"
INWARD_TRANSFER == "INWARD"
OUTWARD_TRANSFER == "OUTWARD"
SALE == "Sale"
\* The type of a stock-adjustment row (written by log_stock_adjustment).
ADJUSTMENT == "ADJUSTMENT"

\* ------------------------------------------------------------------- state

VARIABLES
  ledger,     \* table inventory_transactions, in insertion order
  last,       \* the last call: its name, arguments and whether it raised
  pre,        \* the ledger as it was when the last call started
  view,       \* the last read call made since the last write, what it returned, and
              \* how many times in a row it has been made
  hierarchy,  \* table branch_hierarchy: rows (Sub_Branch_ID, Parent_Branch_ID)
  sales_records,  \* table sales_records: id -> row
  last_sale,  \* the last call of the fulfillment workflow, and how many were made
  pre_sales,  \* table sales_records as it was when that call started
  st,         \* one browser session of the app: st.session_state (the pending
              \* batches), st.cache_data (process-wide) and its last script run
  sessions    \* the database sessions with an open transaction, and the store's
              \* autoincrement counter

vars == <<ledger, last, pre, view, hierarchy, sales_records, last_sale, pre_sales,
          st, sessions>>

\* The part of the state that the fulfillment workflow owns.
workflow == <<sales_records, last_sale, pre_sales>>

\* A sale as the sales application creates it: nothing of the workflow has happened.
NewSalesRecord(id) ==
  [id |-> id, Branch_ID |-> IF id = 7 THEN "H1" ELSE "S1",
   fulfillment_status |-> PDI_PENDING, pdi_assigned_to |-> NULL,
   chassis_no |-> NULL, pdi_completion_date |-> NULL,
   is_insurance_done |-> FALSE, is_tr_done |-> FALSE]

NoSaleCall == [op |-> "none", sale_id |-> 0, arg |-> NULL, raised |-> NULL, n |-> 0]

\* No read call has been made since the last write.
NoView == [query |-> "none", args |-> <<>>, result |-> NULL, n |-> 0]

\* The keys of st.session_state that hold a pending batch.
BatchKeys == {"inward_batch", "transfer_batch", "sales_batch"}

\* No event of the session has been handled yet.
NoRun ==
  [event |-> "none", key |-> "none", message |-> "none", batch |-> <<>>,
   before |-> [k \in BatchKeys |-> <<>>], retry |-> FALSE,
   config |-> [head_branches |-> {}], fresh |-> FALSE, stock |-> {}, tasks |-> {}]

\* if 'inward_batch' not in st.session_state: st.session_state.inward_batch = [] ...;
\* nothing is cached.
NewSession ==
  [session_state |-> [k \in BatchKeys |-> <<>>], cache_data |-> {}, run |-> NoRun]

\* The database sessions of two requests served at the same time (get_db() gives
\* each handler call a session of its own).
DbSessions == {"A", "B"}

\* No database session has begun a transaction; the store has issued no id.
NoSessions ==
  [next_id |-> 1,
   txn |-> [s \in DbSessions |->
              [state |-> "idle", op |-> "none", a |-> NULL, b |-> NULL, date |-> 0,
               batch |-> <<>>, pending |-> <<>>, inserted |-> <<>>]]]

\* A row before it is inserted (id is assigned by the store on insert).
Txn(dt, type, cur, from, to, ext, item, load, rem) ==
  [Date |-> dt, Transaction_Type |-> type, Source_External |-> ext,
   From_Branch_ID |-> from, Current_Branch_ID |-> cur, To_Branch_ID |-> to,
   Model |-> item.Model, Variant |-> item.Variant, Color |-> item.Color,
   Quantity |-> item.Quantity, Load_Number |-> load, Remarks |-> rem]

WithId(t, i) ==
  [id |-> i, Date |-> t.Date, Transaction_Type |-> t.Transaction_Type,
   Source_External |-> t.Source_External, From_Branch_ID |-> t.From_Branch_ID,
   Current_Branch_ID |-> t.Current_Branch_ID, To_Branch_ID |-> t.To_Branch_ID,
   Model |-> t.Model, Variant |-> t.Variant, Color |-> t.Color,
   Quantity |-> t.Quantity, Load_Number |-> t.Load_Number, Remarks |-> t.Remarks]

\* Insert with the new rows put before the rows that were there.
InsertNewestFirst(db, pending) ==
  [i \in 1..Len(pending) |-> WithId(pending[i], Len(db) + i)] \o db

\* The INSERTs of a flush: the pending rows in the order they were added, each given
\* the next value of the autoincrement primary key.
Insert(db, pending) ==
  db \o [i \in 1..Len(pending) |-> WithId(pending[i], Len(db) + i)]

\* SessionCommit without the rollback: the rows inserted before the rejected one stay.
SessionCommitNoRollback(db, pending, failAt) ==
  IF failAt = 0 THEN db \o [i \in 1..Len(pending) |-> WithId(pending[i], Len(db) + i)]
  ELSE db \o [i \in 1..(failAt - 1) |-> WithId(pending[i], Len(db) + i)]

\* db.commit() inside try / except: db.rollback(); raise.  failAt = 0: every INSERT
\* succeeds and the transaction commits.  failAt = k > 0: the k-th INSERT is rejected
\* by the store; the rows inserted before it belong to the same open transaction and
\* the rollback discards them.
SessionCommit(db, pending, failAt) ==
  LET flushed == Insert(db, SubSeq(pending, 1, failAt - 1))  \* inside the transaction
      rolledBack == SubSeq(flushed, 1, Len(db))             \* its INSERTs undone
  IN IF failAt = 0 THEN Insert(db, pending) ELSE rolledBack

\* --------------------------------------------------------------- read side

\* NetQuantity with INWARD_TRANSFER left out of the list of inward types.
NetQuantityOemOnly(t) ==
  IF t.Transaction_Type \in {INWARD_OEM} THEN t.Quantity ELSE 0 - t.Quantity

\* net_quantity = case((Transaction_Type.in_([INWARD_OEM, INWARD_TRANSFER]), Quantity),
\*                     else_=-Quantity)
NetQuantity(t) ==
  IF t.Transaction_Type \in {INWARD_OEM, INWARD_TRANSFER}
  THEN t.Quantity
  ELSE 0 - t.Quantity

RECURSIVE SumNetFrom(_, _, _, _, _, _)
SumNetFrom(db, i, name, m, v, c) ==
  IF i > Len(db) THEN 0
  ELSE (IF /\ Branch_Name(db[i].Current_Branch_ID) = name
           /\ db[i].Model = m /\ db[i].Variant = v /\ db[i].Color = c
        THEN NetQuantity(db[i]) ELSE 0)
       + SumNetFrom(db, i + 1, name, m, v, c)

\* func.sum(net_quantity) of the group (Branch_Name, Model, Variant, Color) among the
\* rows whose Current_Branch_ID is in branch_ids.
GroupSum(db, branch_ids, name, m, v, c) ==
  SumNetFrom(SelectSeq(db, LAMBDA t : t.Current_Branch_ID \in branch_ids), 1, name, m, v, c)

\* GetMultiBranchStock without the HAVING clause.
GetMultiBranchStockNoHaving(db, branch_ids) ==
  LET joined == SelectSeq(db, LAMBDA t : /\ t.Current_Branch_ID \in Branches
                                        /\ t.Current_Branch_ID \in branch_ids)
      groups == {<<Branch_Name(joined[i].Current_Branch_ID), joined[i].Model,
                   joined[i].Variant, joined[i].Color>> : i \in 1..Len(joined)}
  IN {[Branch_Name |-> g[1], Model |-> g[2], Variant |-> g[3], Color |-> g[4],
       Stock |-> SumNetFrom(joined, 1, g[1], g[2], g[3], g[4])] : g \in groups}

\* GetMultiBranchStock that takes every row in which a queried branch is the current,
\* the from or the to branch.
GetMultiBranchStockEndpoints(db, branch_ids) ==
  LET joined == SelectSeq(db, LAMBDA t : /\ t.Current_Branch_ID \in Branches
                                        /\ \/ t.Current_Branch_ID \in branch_ids
                                           \/ t.From_Branch_ID \in branch_ids
                                           \/ t.To_Branch_ID \in branch_ids)
      groups == {<<Branch_Name(joined[i].Current_Branch_ID), joined[i].Model,
                   joined[i].Variant, joined[i].Color>> : i \in 1..Len(joined)}
  IN {[Branch_Name |-> g[1], Model |-> g[2], Variant |-> g[3], Color |-> g[4],
       Stock |-> SumNetFrom(joined, 1, g[1], g[2], g[3], g[4])] :
        g \in {h \in groups : SumNetFrom(joined, 1, h[1], h[2], h[3], h[4]) # 0}}

\* GetMultiBranchStock that lists only the groups whose sum is above 0.
GetMultiBranchStockPositiveOnly(db, branch_ids) ==
  LET joined == SelectSeq(db, LAMBDA t : /\ t.Current_Branch_ID \in Branches
                                        /\ t.Current_Branch_ID \in branch_ids)
      groups == {<<Branch_Name(joined[i].Current_Branch_ID), joined[i].Model,
                   joined[i].Variant, joined[i].Color>> : i \in 1..Len(joined)}
  IN {[Branch_Name |-> g[1], Model |-> g[2], Variant |-> g[3], Color |-> g[4],
       Stock |-> SumNetFrom(joined, 1, g[1], g[2], g[3], g[4])] :
        g \in {h \in groups : SumNetFrom(joined, 1, h[1], h[2], h[3], h[4]) > 0}}

\* get_multi_branch_stock(db, branch_ids): one result row per group whose sum is not 0.
GetMultiBranchStock(db, branch_ids) ==
  LET joined == SelectSeq(db, LAMBDA t : /\ t.Current_Branch_ID \in Branches
                                        /\ t.Current_Branch_ID \in branch_ids)
      groups == {<<Branch_Name(joined[i].Current_Branch_ID), joined[i].Model,
                   joined[i].Variant, joined[i].Color>> : i \in 1..Len(joined)}
  IN {[Branch_Name |-> g[1], Model |-> g[2], Variant |-> g[3], Color |-> g[4],
       Stock |-> SumNetFrom(joined, 1, g[1], g[2], g[3], g[4])] :
        g \in {h \in groups : SumNetFrom(joined, 1, h[1], h[2], h[3], h[4]) # 0}}

\* GetCurrentStockSummary whose rows can be fetched once: a call that follows a call
\* of the same query finds them consumed.
GetCurrentStockSummaryOnce(db, branch_id) ==
  IF view.query = "get_current_stock_summary" THEN {}
  ELSE {[Model |-> db[i].Model, Variant |-> db[i].Variant, Color |-> db[i].Color,
         Stock_On_Hand |-> NetQuantity(db[i])] :
          i \in {j \in 1..Len(db) : db[j].Current_Branch_ID = branch_id}}

\* get_current_stock_summary(db, branch_id)
GetCurrentStockSummary(db, branch_id) ==
  LET mine == SelectSeq(db, LAMBDA t : t.Current_Branch_ID = branch_id)
      name == Branch_Name(branch_id)
      groups == {<<mine[i].Model, mine[i].Variant, mine[i].Color>> : i \in 1..Len(mine)}
  IN {[Model |-> g[1], Variant |-> g[2], Color |-> g[3],
       Stock_On_Hand |-> SumNetFrom(mine, 1, name, g[1], g[2], g[3])] :
        g \in {h \in groups : SumNetFrom(mine, 1, name, h[1], h[2], h[3]) # 0}}

\* GetHeadBranches read as "the branches that are not sub-branches".
GetHeadBranchesNotSubs(hier) ==
  {b \in BranchTable : b \notin {e.Sub_Branch_ID : e \in hier}}

\* get_head_branches(db): the branches whose Branch_ID is among the Parent_Branch_ID
\* values of table branch_hierarchy.
GetHeadBranches(hier) ==
  LET head_branch_ids == {e.Parent_Branch_ID : e \in hier}
  IN {b \in BranchTable : b \in head_branch_ids}

\* GetManagedBranches without the head branch itself.
GetManagedBranchesSubsOnly(hier, head_branch_id, row_order) ==
  SelectSeq(row_order,
            LAMBDA b : \E e \in hier :
                         e.Sub_Branch_ID = b /\ e.Parent_Branch_ID = head_branch_id)

\* get_managed_branches(db, head_branch_id): the Branch rows joined to the hierarchy
\* rows whose parent is head_branch_id, in the order the store returns them
\* (row_order), after the Branch row of head_branch_id when there is one.
GetManagedBranches(hier, head_branch_id, row_order) ==
  LET sub_branches ==
        SelectSeq(row_order,
                  LAMBDA b : \E e \in hier :
                               e.Sub_Branch_ID = b /\ e.Parent_Branch_ID = head_branch_id)
      head_branch == IF head_branch_id \in BranchTable THEN head_branch_id ELSE NULL
  IN IF head_branch # NULL THEN <<head_branch>> \o sub_branches ELSE sub_branches

\* The limit of get_recent_transactions when the caller gives none.
DefaultLimit == 50

\* get_daily_transfer_summary(db, limit: int = 100)
DefaultSummaryLimit == 100

RECURSIVE SumQuantity(_)
SumQuantity(rows) ==
  IF rows = <<>> THEN 0 ELSE Head(rows).Quantity + SumQuantity(Tail(rows))

\* get_daily_transfer_summary(db, limit): the OUTWARD_TRANSFER rows, inner-joined to
\* the branches table once on From_Branch_ID and once on To_Branch_ID (a row whose
\* From_Branch_ID or To_Branch_ID is NULL matches no branch and is dropped), grouped
\* by (Date, sender's name, receiver's name) with the sum of Quantity, ordered by Date
\* descending and cut at limit.  The order of groups of one date is not fixed by the
\* query: the value is the set of the results it can give, each as its set of rows.
GetDailyTransferSummary(db, limit) ==
  LET joined == SelectSeq(db, LAMBDA t : /\ t.From_Branch_ID \in Branches
                                        /\ t.To_Branch_ID \in Branches
                                        /\ t.Transaction_Type = OUTWARD_TRANSFER)
      groups == {<<joined[i].Date, Branch_Name(joined[i].From_Branch_ID),
                   Branch_Name(joined[i].To_Branch_ID)>> : i \in 1..Len(joined)}
      rows == {[Date |-> g[1], From_Branch |-> g[2], To_Branch |-> g[3],
                Total_Qty |-> SumQuantity(SelectSeq(joined, LAMBDA t :
                                /\ t.Date = g[1]
                                /\ Branch_Name(t.From_Branch_ID) = g[2]
                                /\ Branch_Name(t.To_Branch_ID) = g[3]))] : g \in groups}
      n == IF Cardinality(rows) < limit THEN Cardinality(rows) ELSE limit
  IN {R \in SUBSET rows : /\ Cardinality(R) = n
                          /\ \A r \in R, q \in rows \ R : r.Date >= q.Date}

\* ORDER BY Date DESC, id DESC: r comes before q.
ComesBefore(r, q) == r.Date > q.Date \/ (r.Date = q.Date /\ r.id > q.id)

RECURSIVE OrderByDateIdDesc(_)
OrderByDateIdDesc(rows) ==
  IF rows = {} THEN <<>>
  ELSE LET first == CHOOSE r \in rows : \A q \in rows \ {r} : ComesBefore(r, q)
       IN <<first>> \o OrderByDateIdDesc(rows \ {first})

\* GetRecentTransactions without the limit.
GetRecentTransactionsNoLimit(db, branch_id, limit) ==
  OrderByDateIdDesc({db[i] : i \in {j \in 1..Len(db) :
                       \/ db[j].Current_Branch_ID = branch_id
                       \/ db[j].From_Branch_ID = branch_id
                       \/ db[j].To_Branch_ID = branch_id}})

\* GetRecentTransactions that returns one row of nulls when no row matches.
GetRecentTransactionsNullRowOnEmpty(db, branch_id, limit) ==
  LET matching == {db[i] : i \in {j \in 1..Len(db) :
                     \/ db[j].Current_Branch_ID = branch_id
                     \/ db[j].From_Branch_ID = branch_id
                     \/ db[j].To_Branch_ID = branch_id}}
      ordered == OrderByDateIdDesc(matching)
  IN IF matching = {} THEN <<NULL>>
     ELSE SubSeq(ordered, 1, IF Len(ordered) < limit THEN Len(ordered) ELSE limit)

\* get_recent_transactions(db, branch_id, limit): the rows in which branch_id is the
\* current, the from or the to branch, newest first, at most limit of them.
GetRecentTransactions(db, branch_id, limit) ==
  LET matching == {db[i] : i \in {j \in 1..Len(db) :
                     \/ db[j].Current_Branch_ID = branch_id
                     \/ db[j].From_Branch_ID = branch_id
                     \/ db[j].To_Branch_ID = branch_id}}
      ordered == OrderByDateIdDesc(matching)
  IN SubSeq(ordered, 1, IF Len(ordered) < limit THEN Len(ordered) ELSE limit)

\* The binding of a call's arguments to the parameters of a def: it fails (TypeError)
\* when more positional arguments are passed than there are parameters, or when a
\* keyword argument names no parameter that is still unbound.
Binds(params, npos, kwnames) ==
  /\ npos <= Len(params)
  /\ kwnames \subseteq {params[i] : i \in (npos + 1)..Len(params)}

\* render_stock_view_interactive: mgr.get_multi_branch_stock(db, selected_ids,
\* as_of_date) against def get_multi_branch_stock(db, branch_ids); an exception is
\* caught by the view and shown as "Error loading stock data".
StockViewQuery(db, selected_ids, as_of_date) ==
  IF Binds(<<"db", "branch_ids">>, 3, {})
  THEN [error |-> NULL, rows |-> GetMultiBranchStock(db, selected_ids)]
  ELSE [error |-> "TypeError", rows |-> {}]

\* render_stock_view_interactive, "Recent Activity": mgr.get_recent_transactions(db,
\* selected_ids, start_date=start_d, end_date=end_d) against def
\* get_recent_transactions(db, branch_id, limit=50); an exception is caught by the view.
RecentActivityQuery(db, selected_ids, start_d, end_d) ==
  IF Binds(<<"db", "branch_id", "limit">>, 2, {"start_date", "end_date"})
  THEN [error |-> NULL, rows |-> GetRecentTransactions(db, selected_ids, DefaultLimit)]
  ELSE [error |-> "TypeError", rows |-> <<>>]

\* The contribution of a row under the stated sign convention.
SignedContribution(t) ==
  IF t.Transaction_Type \in {INWARD_OEM, INWARD_TRANSFER, ADJUSTMENT}
  THEN t.Quantity
  ELSE 0 - t.Quantity

RECURSIVE SignedSum(_, _, _)
SignedSum(db, b, d) ==
  IF db = <<>> THEN 0
  ELSE (IF /\ Head(db).Current_Branch_ID = b
           /\ <<Head(db).Model, Head(db).Variant, Head(db).Color>> = d
        THEN SignedContribution(Head(db)) ELSE 0) + SignedSum(Tail(db), b, d)

\* get_stock_for_single_item(db, branch_id, model, variant, color): the sum of the
\* signed contributions of the rows of exactly that tuple, 0 when there is none.
GetStockForSingleItem(db, branch_id, model, variant, color) ==
  SignedSum(db, branch_id, <<model, variant, color>>)

\* -------------------------------------------------------------- write side

RECURSIVE Flatten(_)
Flatten(ss) == IF ss = <<>> THEN <<>> ELSE Head(ss) \o Flatten(Tail(ss))

\* log_oem_inward: the row it adds.
OemInwardRows(branch_id, item, load_no, dt, rem) ==
  <<Txn(dt, INWARD_OEM, branch_id, NULL, NULL, "HMSI", item, load_no, <<rem>>)>>

\* log_transfer: txn_out, txn_in.
\* TransferRows whose inward row is booked at the sending branch.
TransferRowsInwardAtSender(from_id, to_id, item, dt, rem) ==
  <<Txn(dt, OUTWARD_TRANSFER, from_id, NULL, to_id, NULL, item, NULL,
        <<"Transfer OUT to ", to_id, " from ", from_id, ". ">> \o rem),
    Txn(dt, INWARD_TRANSFER, from_id, from_id, NULL, NULL, item, NULL,
        <<"Auto-transfer IN from ", from_id, " to ", to_id, ". ">> \o rem)>>

TransferRows(from_id, to_id, item, dt, rem) ==
  <<Txn(dt, OUTWARD_TRANSFER, from_id, NULL, to_id, NULL, item, NULL,
        <<"Transfer OUT to ", to_id, " from ", from_id, ". ">> \o rem),
    Txn(dt, INWARD_TRANSFER, to_id, from_id, NULL, NULL, item, NULL,
        <<"Auto-transfer IN from ", from_id, " to ", to_id, ". ">> \o rem)>>

\* log_sale: the row it adds.
\* SaleRows that records the selling branch as the row's from-branch too.
SaleRowsFromBranch(branch_id, item, dt, rem) ==
  <<Txn(dt, SALE, branch_id, branch_id, NULL, NULL, item, NULL, rem)>>

SaleRows(branch_id, item, dt, rem) ==
  <<Txn(dt, SALE, branch_id, NULL, NULL, NULL, item, NULL, <<rem>>)>>

\* BulkSalesRows that stores the sign of the movement with the quantity.
BulkSalesRowsSignedQty(branch_id, date_val, remarks, vehicle_batch) ==
  [i \in 1..Len(vehicle_batch) |->
     Txn(date_val, SALE, branch_id, NULL, NULL, NULL,
         [vehicle_batch[i] EXCEPT !.Quantity = 0 - vehicle_batch[i].Quantity],
         NULL, <<remarks>>)]

\* BulkSalesRows that leaves the loop after the first item.
BulkSalesRowsFirstOnly(branch_id, date_val, remarks, vehicle_batch) ==
  <<Txn(date_val, SALE, branch_id, NULL, NULL, NULL, vehicle_batch[1], NULL, <<remarks>>)>>

\* log_bulk_sales: the rows of the loop over vehicle_batch.
BulkSalesRows(branch_id, date_val, remarks, vehicle_batch) ==
  [i \in 1..Len(vehicle_batch) |->
     Txn(date_val, SALE, branch_id, NULL, NULL, NULL, vehicle_batch[i], NULL, <<remarks>>)]

\* BulkInwardRows that never resolves the source: every batch is logged as external.
BulkInwardRowsAlwaysExternal(current_branch_id, source, load_no, date_val, remarks, vehicle_batch) ==
  [i \in 1..Len(vehicle_batch) |->
     Txn(date_val, INWARD_OEM, current_branch_id, NULL, NULL, source,
         vehicle_batch[i], load_no, <<remarks>>)]

\* BulkInwardRows whose external rows leave Quantity to the column default (1).
BulkInwardRowsDefaultQty(current_branch_id, source, load_no, date_val, remarks, vehicle_batch) ==
  IF source \in Branches
  THEN Flatten([i \in 1..Len(vehicle_batch) |->
         <<Txn(date_val, OUTWARD_TRANSFER, source, NULL, current_branch_id, NULL,
               vehicle_batch[i], NULL,
               <<"Bulk Transfer OUT to ", current_branch_id, ". ", remarks>>),
           Txn(date_val, INWARD_TRANSFER, current_branch_id, source, NULL, NULL,
               vehicle_batch[i], load_no,
               <<"Bulk Transfer IN from ", source, ". ", remarks>>)>>])
  ELSE [i \in 1..Len(vehicle_batch) |->
         Txn(date_val, INWARD_OEM, current_branch_id, NULL, NULL, source,
             [vehicle_batch[i] EXCEPT !.Quantity = 1], load_no, <<remarks>>)]

\* log_bulk_inward: is_internal is read once, then one of the two loops runs.
BulkInwardRows(current_branch_id, source, load_no, date_val, remarks, vehicle_batch) ==
  IF source \in Branches
  THEN Flatten([i \in 1..Len(vehicle_batch) |->
         <<Txn(date_val, OUTWARD_TRANSFER, source, NULL, current_branch_id, NULL,
               vehicle_batch[i], NULL,
               <<"Bulk Transfer OUT to ", current_branch_id, ". ", remarks>>),
           Txn(date_val, INWARD_TRANSFER, current_branch_id, source, NULL, NULL,
               vehicle_batch[i], load_no,
               <<"Bulk Transfer IN from ", source, ". ", remarks>>)>>])
  ELSE [i \in 1..Len(vehicle_batch) |->
         Txn(date_val, INWARD_OEM, current_branch_id, NULL, NULL, source,
             vehicle_batch[i], load_no, <<remarks>>)]

\* BulkTransferRows that adds the outward rows only.
BulkTransferRowsOutOnly(from_branch_id, to_branch_id, date_val, remarks, vehicle_batch) ==
  [i \in 1..Len(vehicle_batch) |->
     Txn(date_val, OUTWARD_TRANSFER, from_branch_id, NULL, to_branch_id, NULL,
         vehicle_batch[i], NULL, <<"Transfer OUT to ", to_branch_id, ". ", remarks>>)]

\* BulkTransferRows whose inward rows are dated the day after the transfer date.
BulkTransferRowsInwardNextDay(from_branch_id, to_branch_id, date_val, remarks, vehicle_batch) ==
  Flatten([i \in 1..Len(vehicle_batch) |->
    <<Txn(date_val, OUTWARD_TRANSFER, from_branch_id, NULL, to_branch_id, NULL,
          vehicle_batch[i], NULL, <<"Transfer OUT to ", to_branch_id, ". ", remarks>>),
      Txn(date_val + 1, INWARD_TRANSFER, to_branch_id, from_branch_id, NULL, NULL,
          vehicle_batch[i], NULL, <<"Transfer IN from ", from_branch_id, ". ", remarks>>)>>])

\* log_bulk_transfer: the rows of the loop over vehicle_batch.
BulkTransferRows(from_branch_id, to_branch_id, date_val, remarks, vehicle_batch) ==
  Flatten([i \in 1..Len(vehicle_batch) |->
    <<Txn(date_val, OUTWARD_TRANSFER, from_branch_id, NULL, to_branch_id, NULL,
          vehicle_batch[i], NULL, <<"Transfer OUT to ", to_branch_id, ". ", remarks>>),
      Txn(date_val, INWARD_TRANSFER, to_branch_id, from_branch_id, NULL, NULL,
          vehicle_batch[i], NULL, <<"Transfer IN from ", from_branch_id, ". ", remarks>>)>>])

\* log_inward_stock: a transfer through log_transfer when source is a branch id, else
\* one INWARD_OEM row with the descriptor stripped and upper-cased.
InwardStockRows(current_branch_id, source, item, load_no, date_val, remarks) ==
  IF source \in Branches
  THEN TransferRows(source, current_branch_id, item, date_val,
                    <<remarks, " (Logged via Inward)">>)
  ELSE <<Txn(date_val, INWARD_OEM, current_branch_id, NULL, NULL, source,
             [Model |-> Upper(item.Model), Variant |-> Upper(item.Variant),
              Color |-> Upper(item.Color), Quantity |-> item.Quantity],
             load_no, <<remarks>>)>>

\* log_stock_adjustment(db, branch_id, model, variant, color, qty, date, remarks, actor):
\* one ADJUSTMENT row holding the signed qty, the remarks annotated with the actor;
\* nothing when qty is 0.
StockAdjustmentRows(branch_id, model, variant, color, qty, dt, remarks, actor) ==
  IF qty = 0 THEN <<>>
  ELSE <<Txn(dt, ADJUSTMENT, branch_id, NULL, NULL, NULL,
             [Model |-> model, Variant |-> variant, Color |-> color, Quantity |-> qty],
             NULL, <<remarks, " (by ", actor, ")">>)>>

\* render_stock_view_interactive, "Confirm Stock Adjustment": the message shown.
ConfirmAdjustmentOutcome(adj_remarks, adjustment_qty) ==
  IF adj_remarks = "" THEN "Reason is required."
  ELSE IF adjustment_qty = 0 THEN "No change."
  ELSE "Stock adjusted!"

\* ConfirmAdjustmentRows that passes every confirmed correction on, and writes its row.
ConfirmAdjustmentRowsUnchecked(adj_branch_id, model, variant, color, adjustment_qty, today, adj_remarks, role) ==
  <<Txn(today, ADJUSTMENT, adj_branch_id, NULL, NULL, NULL,
        [Model |-> model, Variant |-> variant, Color |-> color,
         Quantity |-> adjustment_qty],
        NULL, <<adj_remarks, " (by ", role, ")">>)>>

\* render_stock_view_interactive, "Confirm Stock Adjustment": log_stock_adjustment is
\* called only with a reason and a non-zero adjustment_qty.
ConfirmAdjustmentRows(adj_branch_id, model, variant, color, adjustment_qty, today, adj_remarks, role) ==
  IF ConfirmAdjustmentOutcome(adj_remarks, adjustment_qty) = "Stock adjusted!"
  THEN StockAdjustmentRows(adj_branch_id, model, variant, color, adjustment_qty, today,
                           adj_remarks, role)
  ELSE <<>>

\* The number of vehicle movements the ledger records (a transfer's INWARD row is the
\* second row of its movement).
Movements(db) == Len(SelectSeq(db, LAMBDA t : t.Transaction_Type # INWARD_TRANSFER))

\* What is known of a call afterwards: its name, its arguments and result when it
\* returned, the position of the rejected INSERT when it raised.
Call(op, a, b, dt, batch, failAt) ==
  IF failAt = 0
  THEN [op |-> op, a |-> a, b |-> b, date |-> dt, batch |-> batch, raised |-> FALSE,
        failAt |-> 0]
  ELSE [op |-> op, a |-> NULL, b |-> NULL, date |-> 0, batch |-> <<>>, raised |-> TRUE,
        failAt |-> failAt]

\* The model follows the ledger while it holds fewer than MaxItems movements.
\* The writes made so far: the movements in the ledger and the workflow calls.
Writes == Movements(ledger) + last_sale.n

HasRoom == Writes < MaxItems

\* Where the store may reject an INSERT of a commit: nowhere (0) when it is healthy,
\* at any of the pending rows when it is faulty.
FailPoints(rows, faulty) == IF faulty THEN 0..Len(rows) ELSE {0}

\* ------------------------------------------------------- the app's session

\* load_config_data() under @st.cache_data: the cached value when there is one, else
\* the value read from the store now.  Of the three tables it returns, head_branches
\* (get_head_branches) is the one that can change here.
LoadConfigData(cache_data, hier) ==
  IF cache_data # {} THEN CHOOSE c \in cache_data : TRUE
  ELSE [head_branches |-> GetHeadBranches(hier)]

\* A handler that leaves the cache as it is.
CacheDataKept(cache_data) == cache_data

\* st.cache_data.clear()
CacheDataClear(cache_data) == {}

\* A submit handler that empties the batch whether the manager returned or raised.
SubmittedStateAlwaysEmptied(session_state, key, ok) == [session_state EXCEPT ![key] = <<>>]

\* submit_inward / submit_transfer / submit_sales: st.session_state.<key> = [] is
\* reached when the manager returned; when it raised, the except branch is taken.
SubmittedState(session_state, key, ok) ==
  IF ok THEN [session_state EXCEPT ![key] = <<>>] ELSE session_state

\* The branch of the logged-in user (st.session_state.inventory_branch_id).
inventory_branch_id == "H1"

\* What the session shows once an event is handled.  A handler that ends in
\* st.rerun() starts a new run of the script; one that ends in st.error lets the run
\* finish.  Either way the page was drawn by a run that began with
\* load_config_data() on the cache as the handler left it, and its stock view and
\* task list are read from the store, uncached.
Handled(event, key, message, batch, session_state, cache_data) ==
  LET config == LoadConfigData(cache_data, hierarchy)
  IN st' = [session_state |-> session_state,
            cache_data |-> {config},
            run |-> [event |-> event, key |-> key, message |-> message,
                     batch |-> batch, before |-> st.session_state,
                     retry |-> /\ event = "submit" /\ st.run.event = "submit"
                               /\ st.run.key = key /\ st.run.message = "error",
                     config |-> config,
                     fresh |-> config = [head_branches |-> GetHeadBranches(hierarchy)],
                     stock |-> GetMultiBranchStock(ledger', Branches),
                     tasks |-> {sales_records'[id] : id \in
                                  {i \in SaleIds : sales_records'[i].fulfillment_status
                                                     = PDI_IN_PROGRESS}}]]

\* One write call: the rows are added to the session, the session commits.
WriteStore(op, a, b, dt, batch, rows, failAt) ==
  /\ Writes + Len(batch) <= MaxItems
  /\ ledger' = SessionCommit(ledger, rows, failAt)
  /\ last' = Call(op, a, b, dt, batch, failAt)
  /\ pre' = ledger
  /\ view' = NoView
  /\ UNCHANGED <<hierarchy, workflow, sessions>>

\* A write call of the manager made outside the app's forms.
Write(op, a, b, dt, batch, rows, failAt) ==
  WriteStore(op, a, b, dt, batch, rows, failAt) /\ UNCHANGED st

LogOemInward(faulty) ==
  /\ HasRoom
  /\ \E branch_id \in Branches, item \in Items, load_no \in LoadNumbers, dt \in Dates,
        rem \in RemarksIn :
       LET rows == OemInwardRows(branch_id, item, load_no, dt, rem)
       IN \E failAt \in FailPoints(rows, faulty) :
            Write("log_oem_inward", branch_id, "HMSI", dt, <<item>>, rows, failAt)

LogTransfer(faulty) ==
  /\ HasRoom
  /\ \E from_id \in Branches, to_id \in Branches, item \in Items, dt \in Dates,
        rem \in RemarksIn :
       LET rows == TransferRows(from_id, to_id, item, dt, <<rem>>)
       IN \E failAt \in FailPoints(rows, faulty) :
            Write("log_transfer", from_id, to_id, dt, <<item>>, rows, failAt)

LogSale(faulty) ==
  /\ HasRoom
  /\ \E branch_id \in Branches, item \in Items, dt \in Dates, rem \in RemarksIn :
       LET rows == SaleRows(branch_id, item, dt, rem)
       IN \E failAt \in FailPoints(rows, faulty) :
            Write("log_sale", branch_id, NULL, dt, <<item>>, rows, failAt)

LogBulkSales(faulty) ==
  /\ HasRoom
  /\ \E branch_id \in Branches, date_val \in Dates, remarks \in RemarksIn,
        vehicle_batch \in Batches :
       LET rows == BulkSalesRows(branch_id, date_val, remarks, vehicle_batch)
       IN \E failAt \in FailPoints(rows, faulty) :
            Write("log_bulk_sales", branch_id, NULL, date_val, vehicle_batch, rows,
                  failAt)

LogBulkInward(faulty) ==
  /\ HasRoom
  /\ \E current_branch_id \in Branches, source \in Branches \cup ExternalSources,
        load_no \in LoadNumbers, date_val \in Dates, remarks \in RemarksIn,
        vehicle_batch \in Batches :
       LET rows == BulkInwardRows(current_branch_id, source, load_no, date_val,
                                  remarks, vehicle_batch)
       IN \E failAt \in FailPoints(rows, faulty) :
            Write("log_bulk_inward", current_branch_id, source, date_val,
                  vehicle_batch, rows, failAt)

LogBulkTransfer(faulty) ==
  /\ HasRoom
  /\ \E from_branch_id \in Branches, to_branch_id \in Branches, date_val \in Dates,
        remarks \in RemarksIn, vehicle_batch \in Batches :
       LET rows == BulkTransferRows(from_branch_id, to_branch_id, date_val, remarks,
                                    vehicle_batch)
       IN \E failAt \in FailPoints(rows, faulty) :
            Write("log_bulk_transfer", from_branch_id, to_branch_id, date_val,
                  vehicle_batch, rows, failAt)

LogInwardStock(faulty) ==
  /\ HasRoom
  /\ \E current_branch_id \in Branches, source \in Branches \cup ExternalSources,
        item \in Items, load_no \in LoadNumbers, date_val \in Dates,
        remarks \in RemarksIn :
       LET rows == InwardStockRows(current_branch_id, source, item, load_no, date_val,
                                   remarks)
       IN \E failAt \in FailPoints(rows, faulty) :
            Write("log_inward_stock", current_branch_id, source, date_val, <<item>>,
                  rows, failAt)

LogStockAdjustment(faulty) ==
  /\ HasRoom
  /\ \E branch_id \in Branches, model \in Models, variant \in Variants,
        color \in Colors, qty \in Deltas, dt \in Dates, remarks \in RemarksIn,
        actor \in Actors :
       LET rows == StockAdjustmentRows(branch_id, model, variant, color, qty, dt,
                                       remarks, actor)
       IN \E failAt \in FailPoints(rows, faulty) :
            Write("log_stock_adjustment", branch_id, NULL, dt,
                  <<[Model |-> model, Variant |-> variant, Color |-> color,
                     Quantity |-> qty]>>, rows, failAt)

\* The owner's correction in the stock view: a tuple listed by the view is chosen, the
\* count the system holds for it is shown, the owner enters the count that is right.
ConfirmStockAdjustment(faulty) ==
  /\ HasRoom
  /\ \E selected_ids \in SUBSET Branches, adj_branch_id \in Branches, today \in Dates,
        adj_remarks \in RemarksIn \cup {""}, role \in Actors, d \in Deltas \cup {0} :
       /\ adj_branch_id \in selected_ids
       /\ \E r \in GetMultiBranchStock(ledger, selected_ids) :
            LET current_stock == GetStockForSingleItem(ledger, adj_branch_id, r.Model,
                                                       r.Variant, r.Color)
                new_stock_val == current_stock + d
                adjustment_qty == new_stock_val - current_stock
                rows == ConfirmAdjustmentRows(adj_branch_id, r.Model, r.Variant,
                                              r.Color, adjustment_qty, today,
                                              adj_remarks, role)
                outcome == ConfirmAdjustmentOutcome(adj_remarks, adjustment_qty)
            IN \E failAt \in FailPoints(rows, faulty) :
                 /\ WriteStore("confirm_stock_adjustment", adj_branch_id, outcome, today,
                               <<[Model |-> r.Model, Variant |-> r.Variant,
                                  Color |-> r.Color, Quantity |-> adjustment_qty]>>,
                               rows, failAt)
                 /\ Handled("confirm_adjustment", "none",
                            IF failAt # 0 \/ outcome = "Reason is required."
                            THEN "error"
                            ELSE IF outcome = "Stock adjusted!" THEN "success"
                            ELSE "info",
                            <<>>, st.session_state,
                            IF failAt = 0 /\ outcome = "Stock adjusted!"
                            THEN CacheDataClear(st.cache_data) ELSE st.cache_data)

\* One read call: the function runs its query and returns; nothing is written.  n
\* counts the consecutive calls of this query with these arguments.
Read(query, args, result) ==
  LET n == IF view.query = query /\ view.args = args THEN view.n + 1 ELSE 1
  IN /\ n <= MaxReads
     /\ view' = [query |-> query, args |-> args, result |-> result, n |-> n]
     /\ UNCHANGED <<ledger, last, pre, hierarchy, workflow, st, sessions>>

GetMultiBranchStockCall ==
  \E branch_ids \in SUBSET Branches :
    Read("get_multi_branch_stock", <<branch_ids>>,
         GetMultiBranchStock(ledger, branch_ids))

GetCurrentStockSummaryCall ==
  \E branch_id \in Branches :
    Read("get_current_stock_summary", <<branch_id>>,
         GetCurrentStockSummary(ledger, branch_id))

GetRecentTransactionsCall ==
  \E branch_id \in Branches, limit \in {1, DefaultLimit} :
    Read("get_recent_transactions", <<branch_id, limit>>,
         GetRecentTransactions(ledger, branch_id, limit))

GetHeadBranchesCall ==
  Read("get_head_branches", <<>>, GetHeadBranches(hierarchy))

\* -------------------------------------------------------------- transfer form

\* SubBranchMap that keeps the head branch among the destinations.
SubBranchMapWithHead(managed_branches, current_head_id) ==
  [name \in {Branch_Name(b) : b \in {managed_branches[i] : i \in DOMAIN managed_branches}} |->
     CHOOSE b \in {managed_branches[i] : i \in DOMAIN managed_branches} :
       Branch_Name(b) = name]

\* managed_map = {b.Branch_Name: b.Branch_ID for b in managed_branches} and
\* sub_branch_map = {k: v for k, v in managed_map.items() if v != current_head_id}:
\* the destinations of the transfer form, by name.
SubBranchMap(managed_branches, current_head_id) ==
  LET ids == {managed_branches[i] : i \in DOMAIN managed_branches}
      managed_map == [name \in {Branch_Name(b) : b \in ids} |->
                        CHOOSE b \in ids : Branch_Name(b) = name]
  IN [name \in {k \in DOMAIN managed_map : managed_map[k] # current_head_id} |->
        managed_map[name]]

\* The transfer tab: the head branch is chosen among get_head_branches, the
\* destination among the names of sub_branch_map, and "Submit Batch" on a batch that
\* is not empty calls log_bulk_transfer.
SubmitTransfer ==
  /\ HasRoom
  /\ \E current_head_id \in GetHeadBranches(hierarchy), row_order \in BranchOrders :
       LET managed_branches == GetManagedBranches(hierarchy, current_head_id, row_order)
           sub_branch_map == SubBranchMap(managed_branches, current_head_id)
       IN \E dest_name \in DOMAIN sub_branch_map, date_out \in Dates,
             remarks_out \in RemarksIn, batch \in Batches :
            Write("submit_transfer", current_head_id, sub_branch_map[dest_name], date_out,
                  batch,
                  BulkTransferRows(current_head_id, sub_branch_map[dest_name], date_out,
                                   remarks_out, batch),
                  0)

\* ------------------------------------------------------ fulfillment workflow

\* db.query(SalesRecord).filter(SalesRecord.id == sale_id).first() finds a record
\* (it is None when no row has the id).
Found(recs, sale_id) == sale_id \in DOMAIN recs

\* The result of a workflow function: the table after it, and what it raised.
Done(recs) == [records |-> recs, raised |-> NULL]

\* assign_pdi_mechanic(db, sale_id, mechanic_name)
AssignPdiMechanic(recs, sale_id, mechanic_name) ==
  LET record == recs[sale_id]
  IN IF Found(recs, sale_id)
     THEN Done([recs EXCEPT ![sale_id] =
                  [record EXCEPT !.pdi_assigned_to = mechanic_name,
                                 !.fulfillment_status = PDI_IN_PROGRESS]])
     ELSE Done(recs)

\* CompletePdi that takes the first record of the table when none has the id.
CompletePdiFirstRecord(recs, sale_id, chassis_no, now) ==
  LET id == IF sale_id \in DOMAIN recs THEN sale_id
            ELSE CHOOSE i \in DOMAIN recs : \A j \in DOMAIN recs : i <= j
  IN Done([recs EXCEPT ![id] =
             [recs[id] EXCEPT !.chassis_no = chassis_no,
                              !.fulfillment_status = PDI_COMPLETE,
                              !.pdi_completion_date = now]])

\* complete_pdi(db, sale_id, chassis_no); now is datetime.now(IST_TIMEZONE).
CompletePdi(recs, sale_id, chassis_no, now) ==
  LET record == recs[sale_id]
  IN IF Found(recs, sale_id)
     THEN Done([recs EXCEPT ![sale_id] =
                  [record EXCEPT !.chassis_no = chassis_no,
                                 !.fulfillment_status = PDI_COMPLETE,
                                 !.pdi_completion_date = now]])
     ELSE Done(recs)

\* for key, value in updates.items(): if hasattr(record, key): setattr(record, key, value)
\* ApplyUpdates that sets every key of the map on the record, columns or not.
ApplyUpdatesAnyKey(record, updates) ==
  [key \in DOMAIN record \cup DOMAIN updates |->
     IF key \in DOMAIN updates THEN updates[key] ELSE record[key]]

ApplyUpdates(record, updates) ==
  [key \in DOMAIN record |->
     IF key \in DOMAIN updates THEN updates[key] ELSE record[key]]

\* UpdateInsuranceTrStatus with the insurance flag looked at before the TR flag.
UpdateInsuranceTrStatusInsuranceFirst(recs, sale_id, updates) ==
  LET record == recs[sale_id]
  IN IF Found(recs, sale_id)
     THEN LET updated == ApplyUpdates(record, updates)
              status == IF updated.is_insurance_done THEN INSURANCE_DONE
                        ELSE IF updated.is_tr_done THEN TR_DONE
                        ELSE updated.fulfillment_status
          IN Done([recs EXCEPT ![sale_id] =
                     [updated EXCEPT !.fulfillment_status = status]])
     ELSE Done(recs)

\* update_insurance_tr_status(db, sale_id, updates)
UpdateInsuranceTrStatus(recs, sale_id, updates) ==
  LET record == recs[sale_id]
  IN IF Found(recs, sale_id)
     THEN LET updated == ApplyUpdates(record, updates)
              status == IF updated.is_tr_done THEN TR_DONE
                        ELSE IF updated.is_insurance_done THEN INSURANCE_DONE
                        ELSE updated.fulfillment_status
          IN Done([recs EXCEPT ![sale_id] =
                     [updated EXCEPT !.fulfillment_status = status]])
     ELSE Done(recs)

\* One call of a workflow function: it reads the record, changes it and commits.
SaleStore(op, sale_id, arg, out) ==
  /\ Writes < MaxCalls
  /\ sales_records' = out.records
  /\ last_sale' = [op |-> op, sale_id |-> sale_id, arg |-> arg, raised |-> out.raised,
                   n |-> last_sale.n + 1]
  /\ pre_sales' = sales_records
  /\ UNCHANGED <<ledger, last, pre, view, hierarchy, sessions>>

\* A call of a workflow function made outside the app's views.
SaleCall(op, sale_id, arg, out) == SaleStore(op, sale_id, arg, out) /\ UNCHANGED st

\* The time datetime.now gives to the call being made.
Now == last_sale.n + 1

\* GetSalesRecordsForMechanic without the filter on the status.
GetSalesRecordsForMechanicAnyStatus(recs, mechanic_username, branch_id) ==
  {recs[id] : id \in {i \in DOMAIN recs :
     /\ recs[i].pdi_assigned_to = mechanic_username
     /\ branch_id \notin {NULL, ""} => recs[i].Branch_ID = branch_id}}

\* get_sales_records_for_mechanic(db, mechanic_username, branch_id=None): the records
\* assigned to the mechanic whose status is 'PDI In Progress'; "if branch_id:" adds
\* the filter on Branch_ID for a branch id that is neither None nor empty.
GetSalesRecordsForMechanic(recs, mechanic_username, branch_id) ==
  {recs[id] : id \in {i \in DOMAIN recs :
     /\ recs[i].pdi_assigned_to = mechanic_username
     /\ recs[i].fulfillment_status = PDI_IN_PROGRESS
     /\ branch_id \notin {NULL, ""} => recs[i].Branch_ID = branch_id}}

AssignPdiMechanicCall ==
  \E sale_id \in SaleIds \cup {UnknownSaleId}, mechanic_name \in Mechanics :
    SaleCall("assign_pdi_mechanic", sale_id, mechanic_name,
             AssignPdiMechanic(sales_records, sale_id, mechanic_name))

CompletePdiCall ==
  \E sale_id \in SaleIds \cup {UnknownSaleId}, chassis_no \in ChassisNumbers :
    SaleCall("complete_pdi", sale_id, chassis_no,
             CompletePdi(sales_records, sale_id, chassis_no, Now))

UpdateInsuranceTrStatusCall ==
  \E sale_id \in SaleIds \cup {UnknownSaleId}, updates \in FlagUpdates :
    SaleCall("update_insurance_tr_status", sale_id, updates,
             UpdateInsuranceTrStatus(sales_records, sale_id, updates))

\* "Add to ... Batch": the item chosen in the form is appended to the batch.
AddToBatch ==
  \E key \in BatchKeys, item \in Items :
    LET pending == Len(st.session_state["inward_batch"])
                     + Len(st.session_state["transfer_batch"])
                     + Len(st.session_state["sales_batch"])
    IN
    /\ pending < MaxBatch
    /\ Writes + pending < MaxItems
    /\ UNCHANGED <<ledger, last, pre, view, hierarchy, workflow, sessions>>
    /\ Handled("add", key, "success", <<item>>,
               [st.session_state EXCEPT ![key] = Append(@, item)], st.cache_data)

\* display_batch: the Clear button, shown when the batch is not empty.
ClearBatch ==
  \E key \in BatchKeys :
    /\ st.session_state[key] # <<>>
    /\ UNCHANGED <<ledger, last, pre, view, hierarchy, workflow, sessions>>
    /\ Handled("clear", key, "none", <<>>,
               [st.session_state EXCEPT ![key] = <<>>], st.cache_data)

\* date.today(), the value the date inputs of the forms start with.
Today == CHOOSE d \in Dates : \A e \in Dates : d <= e

\* The manager calls that the submit callback of a batch can make, over the values
\* of its form: submit_inward, submit_transfer, submit_sales.
SubmitCalls(key, current_head_id, managed_map, batch) ==
  IF key = "inward_batch"
  THEN {[op |-> "log_bulk_inward", a |-> current_head_id, b |-> source_val,
         date |-> date_in,
         rows |-> BulkInwardRows(current_head_id, source_val, load_no, date_in,
                                 remarks_in, batch)] :
          source_val \in (Branches \ {current_head_id}) \cup ExternalSources,
          load_no \in LoadNumbers, date_in \in {Today}, remarks_in \in RemarksIn}
  ELSE IF key = "transfer_batch"
  THEN {[op |-> "log_bulk_transfer", a |-> current_head_id, b |-> dest,
         date |-> date_out,
         rows |-> BulkTransferRows(current_head_id, dest, date_out, remarks_out,
                                   batch)] :
          dest \in (managed_map \ {current_head_id}) \cap Branches,
          date_out \in {Today}, remarks_out \in RemarksIn}
  ELSE {[op |-> "log_bulk_sales", a |-> branch, b |-> NULL, date |-> date_sale,
         rows |-> BulkSalesRows(branch, date_sale, remarks_sale, batch)] :
          branch \in managed_map \cap Branches, date_sale \in {Today},
          remarks_sale \in RemarksIn}

\* display_batch: the Submit Batch button, shown when the batch is not empty, calls
\* the submit callback with the batch.
SubmitBatch ==
  \E key \in BatchKeys :
    LET batch == st.session_state[key]
        head_branches == LoadConfigData(st.cache_data, hierarchy).head_branches
    IN /\ batch # <<>>
       /\ \E current_head_id \in head_branches \cap Branches :
            LET managed_branches ==
                  GetManagedBranches(hierarchy, current_head_id,
                                     CHOOSE o \in BranchOrders : TRUE)
                managed_map == {managed_branches[i] : i \in DOMAIN managed_branches}
            IN \E c \in SubmitCalls(key, current_head_id, managed_map, batch) :
                 \E failAt \in FailPoints(c.rows, TRUE) :
                   /\ WriteStore(c.op, c.a, c.b, c.date, batch, c.rows, failAt)
                   /\ Handled("submit", key,
                              IF failAt = 0 THEN "success" ELSE "error", batch,
                              SubmittedState(st.session_state, key, failAt = 0),
                              IF failAt = 0 THEN CacheDataClear(st.cache_data)
                              ELSE st.cache_data)

\* render_pdi_assignment_view: the form lists the sales of the user's branch whose
\* status is 'PDI Pending'; Assign Task calls assign_pdi_mechanic.  When db.commit()
\* raises (ok is false), the function rolls back and raises.
AssignTask ==
  \E sale_id \in {i \in SaleIds :
                    /\ sales_records[i].fulfillment_status = PDI_PENDING
                    /\ sales_records[i].Branch_ID = inventory_branch_id},
     selected_mechanic \in Mechanics, ok \in BOOLEAN :
    /\ HasRoom
    /\ SaleStore("assign_pdi_mechanic", sale_id, selected_mechanic,
                 IF ok THEN AssignPdiMechanic(sales_records, sale_id, selected_mechanic)
                 ELSE [records |-> sales_records, raised |-> "PersistenceFailure"])
    /\ Handled("assign_pdi", "none", IF ok THEN "success" ELSE "error", <<>>,
               st.session_state,
               IF ok THEN CacheDataClear(st.cache_data) ELSE st.cache_data)

\* render_mechanic_view for a mechanic: Mark PDI Complete on one of the mechanic's
\* tasks; without a chassis number the view warns and calls nothing.
MarkPdiComplete ==
  \E username \in Mechanics, chassis_val \in ChassisNumbers, ok \in BOOLEAN :
    \E task \in GetSalesRecordsForMechanic(sales_records, username, inventory_branch_id) :
      IF chassis_val = ""
      THEN /\ UNCHANGED <<ledger, last, pre, view, hierarchy, workflow, sessions>>
           /\ Handled("complete_pdi", "none", "warning", <<>>, st.session_state,
                      st.cache_data)
      ELSE /\ HasRoom
           /\ SaleStore("complete_pdi", task.id, chassis_val,
                        IF ok THEN CompletePdi(sales_records, task.id, chassis_val, Now)
                        ELSE [records |-> sales_records, raised |-> "PersistenceFailure"])
           /\ Handled("complete_pdi", "none", IF ok THEN "success" ELSE "error", <<>>,
                      st.session_state,
                      IF ok THEN CacheDataClear(st.cache_data) ELSE st.cache_data)

\* ------------------------------------------- batches written concurrently

\* An INSERT that is committed on its own, visible to every session at once.
InsertAutocommit(db, row) == Append(db, row)

\* An INSERT inside an open transaction: the committed table, which the other
\* sessions read, is as it was.
InsertInTransaction(db, row) == db

\* A bulk writer is called in session s: the loop adds a row (or a pair) per item to
\* the session; nothing is sent to the store before db.commit().
BeginBatch(s) ==
  /\ sessions.txn[s].state = "idle"
  /\ \E key \in BatchKeys, batch \in Batches :
       LET other == sessions.txn[CHOOSE o \in DbSessions : o # s]
           inflight == IF other.state = "open" THEN Len(other.batch) ELSE 0
       IN /\ Movements(ledger) + inflight + Len(batch) <= MaxItems
          /\ \E c \in SubmitCalls(key, inventory_branch_id, Branches, batch) :
               sessions' = [sessions EXCEPT !.txn[s] =
                              [state |-> "open", op |-> c.op, a |-> c.a, b |-> c.b,
                               date |-> c.date, batch |-> batch, pending |-> c.rows,
                               inserted |-> <<>>]]
  /\ UNCHANGED <<ledger, last, pre, view, hierarchy, workflow, st>>

\* db.commit() flushes: the next pending row of session s is INSERTed in its
\* transaction and takes the next id of the table.
InsertRow(s) ==
  LET t == sessions.txn[s]
      row == WithId(Head(t.pending), sessions.next_id)
  IN /\ t.state = "open" /\ t.pending # <<>>
     /\ sessions' = [next_id |-> sessions.next_id + 1,
                     txn |-> [sessions.txn EXCEPT ![s] =
                                [t EXCEPT !.pending = Tail(t.pending),
                                          !.inserted = Append(t.inserted, row)]]]
     /\ ledger' = InsertInTransaction(ledger, row)
     /\ UNCHANGED <<last, pre, view, hierarchy, workflow, st>>

\* The store rejects the next INSERT of session s: except: db.rollback(); raise e.
RejectRow(s) ==
  LET t == sessions.txn[s]
  IN /\ t.state = "open" /\ t.pending # <<>>
     /\ sessions' = [sessions EXCEPT !.txn[s] =
                       [t EXCEPT !.state = "failed", !.pending = <<>>,
                                 !.inserted = <<>>]]
     /\ last' = Call(t.op, t.a, t.b, t.date, t.batch, Len(t.inserted) + 1)
     /\ pre' = ledger
     /\ UNCHANGED <<ledger, view, hierarchy, workflow, st>>

\* Every row of session s is INSERTed: the transaction commits and its rows are in
\* the committed table.
CommitSession(s) ==
  LET t == sessions.txn[s]
  IN /\ t.state = "open" /\ t.pending = <<>>
     /\ sessions' = [sessions EXCEPT !.txn[s].state = "committed"]
     /\ ledger' = ledger \o t.inserted
     /\ last' = Call(t.op, t.a, t.b, t.date, t.batch, 0)
     /\ pre' = ledger
     /\ view' = NoView
     /\ UNCHANGED <<hierarchy, workflow, st>>

GetManagedBranchesCall ==
  \E head_branch_id \in BranchTable \cup {UnknownBranch}, row_order \in BranchOrders :
    Read("get_managed_branches", <<head_branch_id>>,
         [error |-> NULL, rows |-> GetManagedBranches(hierarchy, head_branch_id, row_order)])

\* The store takes a new row of branch_hierarchy when its Sub_Branch_ID is not yet a
\* key of the table and both of its columns name rows of table branches.
InsertBranchHierarchy ==
  \E sub \in BranchTable, parent \in BranchTable :
    /\ \A e \in hierarchy : e.Sub_Branch_ID # sub
    /\ hierarchy' = hierarchy \cup {[Sub_Branch_ID |-> sub, Parent_Branch_ID |-> parent]}
    /\ view' = NoView
    /\ UNCHANGED <<ledger, last, pre, workflow, st, sessions>>

Init ==
  /\ ledger = <<>>
  /\ last = Call("none", NULL, NULL, 0, <<>>, 0)
  /\ pre = <<>>
  /\ view = NoView
  /\ hierarchy = {[Sub_Branch_ID |-> "S1", Parent_Branch_ID |-> "H1"]}
  /\ sales_records = [id \in SaleIds |-> NewSalesRecord(id)]
  /\ last_sale = NoSaleCall
  /\ pre_sales = sales_records
  /\ st = NewSession
  /\ sessions = NoSessions

\* Every INSERT is accepted by the store.
Next ==
  \/ LogOemInward(FALSE)
  \/ LogTransfer(FALSE)
  \/ LogSale(FALSE)
  \/ LogBulkSales(FALSE)
  \/ LogBulkInward(FALSE)
  \/ LogBulkTransfer(FALSE)
  \/ LogInwardStock(FALSE)
  \/ LogStockAdjustment(FALSE)
  \/ ConfirmStockAdjustment(FALSE)

Spec == Init /\ [][Next]_vars

\* The store may reject any INSERT (PersistenceFailure).
NextFaulty ==
  \/ LogOemInward(TRUE)
  \/ LogTransfer(TRUE)
  \/ LogSale(TRUE)
  \/ LogBulkSales(TRUE)
  \/ LogBulkInward(TRUE)
  \/ LogBulkTransfer(TRUE)
  \/ LogInwardStock(TRUE)
  \/ LogStockAdjustment(TRUE)
  \/ ConfirmStockAdjustment(TRUE)

SpecFaulty == Init /\ [][NextFaulty]_vars

\* The batches of the three forms and the read functions of the manager.
NextRead ==
  \/ LogBulkInward(FALSE)
  \/ LogBulkTransfer(FALSE)
  \/ LogBulkSales(FALSE)
  \/ GetMultiBranchStockCall
  \/ GetCurrentStockSummaryCall
  \/ GetRecentTransactionsCall

SpecRead == Init /\ [][NextRead]_vars

\* The branch hierarchy, which no function writes, can hold any contents the store
\* accepts.
InitHierarchy ==
  /\ ledger = <<>>
  /\ last = Call("none", NULL, NULL, 0, <<>>, 0)
  /\ pre = <<>>
  /\ view = NoView
  /\ hierarchy \in Hierarchies
  /\ sales_records = [id \in SaleIds |-> NewSalesRecord(id)]
  /\ last_sale = NoSaleCall
  /\ pre_sales = sales_records
  /\ st = NewSession
  /\ sessions = NoSessions

NextHierarchy ==
  \/ GetHeadBranchesCall
  \/ GetManagedBranchesCall

SpecHierarchy == InitHierarchy /\ [][NextHierarchy]_vars

\* The branch hierarchy as the store builds it, row by row, from an empty table.
InitHierarchyStore ==
  /\ ledger = <<>>
  /\ last = Call("none", NULL, NULL, 0, <<>>, 0)
  /\ pre = <<>>
  /\ view = NoView
  /\ hierarchy = {}
  /\ sales_records = [id \in SaleIds |-> NewSalesRecord(id)]
  /\ last_sale = NoSaleCall
  /\ pre_sales = sales_records
  /\ st = NewSession
  /\ sessions = NoSessions

NextHierarchyStore ==
  \/ InsertBranchHierarchy
  \/ GetHeadBranchesCall
  \/ GetManagedBranchesCall

SpecHierarchyStore == InitHierarchyStore /\ [][NextHierarchyStore]_vars

\* Transfers entered in the transfer form, and transfers a caller makes with
\* log_bulk_transfer itself, under any branch hierarchy.
NextTransferForm ==
  \/ SubmitTransfer
  \/ LogBulkTransfer(FALSE)

SpecTransferForm == InitHierarchy /\ [][NextTransferForm]_vars

\* The fulfillment workflow on the sales that await delivery.
NextWorkflow ==
  \/ AssignPdiMechanicCall
  \/ CompletePdiCall
  \/ UpdateInsuranceTrStatusCall

SpecWorkflow == Init /\ [][NextWorkflow]_vars

\* Outside the app, sub-dealer S2 is added under S1, which makes S1 a head branch.
NewSubDealer ==
  /\ InsertBranchHierarchy
  /\ hierarchy' = hierarchy \cup {[Sub_Branch_ID |-> "S2", Parent_Branch_ID |-> "S1"]}

\* One session of the app at a head office, the store rejecting any INSERT or
\* commit, while the branch hierarchy is changed from outside the app.
NextSession ==
  \/ AddToBatch
  \/ SubmitBatch
  \/ ConfirmStockAdjustment(TRUE)
  \/ AssignTask
  \/ MarkPdiComplete
  \/ NewSubDealer

SpecSession == Init /\ [][NextSession]_vars

\* Two requests write a batch each, at the same time, while the stock is read.
NextConcurrent ==
  \/ \E s \in DbSessions : BeginBatch(s)
  \/ \E s \in DbSessions : InsertRow(s)
  \/ \E s \in DbSessions : RejectRow(s)
  \/ \E s \in DbSessions : CommitSession(s)
  \/ GetMultiBranchStockCall

SpecConcurrent == Init /\ [][NextConcurrent]_vars

\* The pending batches of one session: items are added, the batch is cleared or
\* submitted, the store rejecting any INSERT.
NextBatch ==
  \/ AddToBatch
  \/ ClearBatch
  \/ SubmitBatch

SpecBatch == Init /\ [][NextBatch]_vars

\* --------------------------------------------------- vocabulary of the properties

\* The vehicle descriptors a ledger row can hold.
Descriptors ==
  {<<m, v, c>> : m \in Models \cup {Upper(x) : x \in Models},
                 v \in Variants \cup {Upper(x) : x \in Variants},
                 c \in Colors \cup {Upper(x) : x \in Colors}}

BaseDescriptor == <<"Activa", "STD", "Red">>

\* The projected stock of (branch, model, variant, color): the group's sum in the
\* stock query of that branch.
Stock(db, b, d) == GroupSum(db, {b}, Branch_Name(b), d[1], d[2], d[3])

\* The rows dated on or before asOf.
AsOf(db, asOf) == SelectSeq(db, LAMBDA t : t.Date <= asOf)

RECURSIVE TotalStock(_, _, _)
TotalStock(db, bs, d) ==
  IF bs = {} THEN 0
  ELSE LET b == CHOOSE x \in bs : TRUE
       IN Stock(db, b, d) + TotalStock(db, bs \ {b}, d)

RECURSIVE SumStockColumn(_)
SumStockColumn(rs) ==
  IF rs = {} THEN 0
  ELSE LET r == CHOOSE x \in rs : TRUE IN r.Stock + SumStockColumn(rs \ {r})

\* The total of the Stock column of the multi-branch query for one descriptor.
MultiTotal(db, bs, d) ==
  SumStockColumn({r \in GetMultiBranchStock(db, bs) :
                    <<r.Model, r.Variant, r.Color>> = d})

RECURSIVE BatchQty(_, _)
BatchQty(batch, d) ==
  IF batch = <<>> THEN 0
  ELSE (IF <<Head(batch).Model, Head(batch).Variant, Head(batch).Color>> = d
        THEN Head(batch).Quantity ELSE 0) + BatchQty(Tail(batch), d)

Returned(ops) == last.op \in ops /\ ~last.raised

\* The rows the last call added.
Added(k) == ledger[Len(pre) + k]

SameVehicle(t, item) ==
  /\ t.Model = item.Model /\ t.Variant = item.Variant /\ t.Color = item.Color
  /\ t.Quantity = item.Quantity

\* The last call moved stock between two branches: a transfer, or an inward whose
\* source is a branch.
IsTransferCall ==
  \/ Returned({"log_bulk_transfer", "log_transfer"})
  \/ Returned({"log_bulk_inward", "log_inward_stock"}) /\ last.b \in Branches

TransferFrom == IF last.op \in {"log_bulk_transfer", "log_transfer"} THEN last.a ELSE last.b
TransferTo == IF last.op \in {"log_bulk_transfer", "log_transfer"} THEN last.b ELSE last.a

\* The k-th and (k+1)-th added rows are the pair of a transfer of item from A to B.
IsTransferPair(k, A, B, item, dt) ==
  LET o == Added(k)
      n == Added(k + 1)
  IN /\ o.Transaction_Type = OUTWARD_TRANSFER
     /\ o.Current_Branch_ID = A /\ o.To_Branch_ID = B
     /\ n.Transaction_Type = INWARD_TRANSFER
     /\ n.Current_Branch_ID = B /\ n.From_Branch_ID = A
     /\ SameVehicle(o, item) /\ SameVehicle(n, item)
     /\ o.Date = dt /\ n.Date = dt

\* ------------------------------------------------------------------ properties

\* C1: every returned transfer call from A to B (log_bulk_transfer, log_transfer) adds,
\* per batch item, exactly one OUTWARD_TRANSFER row at A with To_Branch_ID = B and one
\* INWARD_TRANSFER row at B with From_Branch_ID = A, both with the item's model,
\* variant, color, quantity and the call's date; it adds no other row.
C1_DoubleEntry ==
  Returned({"log_bulk_transfer", "log_transfer"}) =>
    /\ Len(ledger) = Len(pre) + 2 * Len(last.batch)
    /\ SubSeq(ledger, 1, Len(pre)) = pre
    /\ \A i \in 1..Len(last.batch) :
         IsTransferPair(2 * i - 1, last.a, last.b, last.batch[i], last.date)

C1_Witness ==
  /\ Returned({"log_bulk_transfer"})
  /\ Len(last.batch) = 2 /\ last.batch[1] # last.batch[2]
  /\ last.a # last.b

\* C2: a transfer call (an inward from a branch included) leaves the sum over all
\* branches of the projected stock of every descriptor unchanged, over all history and
\* as of every date, also when source and destination are the same branch; so a ledger
\* built by transfers alone sums to 0 for every descriptor.
C2_Conservation ==
  /\ IsTransferCall =>
       \A d \in Descriptors :
         /\ TotalStock(ledger, Branches, d) = TotalStock(pre, Branches, d)
         /\ \A asOf \in Dates :
              TotalStock(AsOf(ledger, asOf), Branches, d)
                = TotalStock(AsOf(pre, asOf), Branches, d)
  /\ (\A i \in 1..Len(ledger) :
        ledger[i].Transaction_Type \in {OUTWARD_TRANSFER, INWARD_TRANSFER}) =>
       \A d \in Descriptors, asOf \in Dates :
         TotalStock(AsOf(ledger, asOf), Branches, d) = 0

C2_Witness ==
  /\ IsTransferCall /\ TransferFrom # TransferTo
  /\ Len(pre) > 0
  /\ TotalStock(ledger, Branches, BaseDescriptor) = 5
  /\ Stock(ledger, TransferTo, BaseDescriptor) = 2

\* C3: the projected stock of every (branch, descriptor) is the sum, over the rows of
\* that tuple, of +Quantity for INWARD_OEM, INWARD_TRANSFER and ADJUSTMENT rows and of
\* -Quantity for OUTWARD_TRANSFER and SALE rows.
C3_SignConvention ==
  \A b \in Branches, d \in Descriptors : Stock(ledger, b, d) = SignedSum(ledger, b, d)

\* C4: no row of the multi-branch stock query, for any set of branches, and no row of
\* the single-branch stock summary has a net quantity of 0; a tuple whose rows net to 0
\* has no row in either result.
C4_ZeroSuppression ==
  /\ \A bs \in SUBSET Branches :
       /\ \A r \in GetMultiBranchStock(ledger, bs) : r.Stock # 0
       /\ \A b \in bs, d \in Descriptors :
            Stock(ledger, b, d) = 0 =>
              ~ \E r \in GetMultiBranchStock(ledger, bs) :
                  /\ r.Branch_Name = Branch_Name(b)
                  /\ <<r.Model, r.Variant, r.Color>> = d
  /\ \A b \in Branches :
       /\ \A r \in GetCurrentStockSummary(ledger, b) : r.Stock_On_Hand # 0
       /\ \A d \in Descriptors :
            Stock(ledger, b, d) = 0 =>
              ~ \E r \in GetCurrentStockSummary(ledger, b) :
                  <<r.Model, r.Variant, r.Color>> = d

C4_Witness ==
  /\ Len(ledger) = 2
  /\ ledger[1].Current_Branch_ID = "S1" /\ ledger[2].Current_Branch_ID = "S1"
  /\ ledger[1].Transaction_Type = INWARD_OEM /\ ledger[2].Transaction_Type = SALE
  /\ Stock(ledger, "S1", BaseDescriptor) = 0
  /\ GetMultiBranchStock(ledger, Branches) = {}
  /\ GetMultiBranchStock(pre, Branches) # {}

\* The batch writes.
BulkOps == {"log_bulk_inward", "log_bulk_transfer", "log_bulk_sales"}

\* The rows a batch write adds per item: two for a movement between branches.
RowsPerItem ==
  IF last.op = "log_bulk_sales" \/ (last.op = "log_bulk_inward" /\ last.b \notin Branches)
  THEN 1 ELSE 2

\* C5: a batch write (bulk inward, bulk transfer, bulk sales) that raises leaves the
\* ledger exactly as it was before the call, whichever INSERT was rejected; one that
\* returns has added the rows of every item of the batch, in batch order, after the
\* rows that were there.
C5_BatchAtomicity ==
  /\ (last.op \in BulkOps /\ last.raised) => ledger = pre
  /\ Returned(BulkOps) =>
       /\ Len(ledger) = Len(pre) + RowsPerItem * Len(last.batch)
       /\ SubSeq(ledger, 1, Len(pre)) = pre
       /\ \A i \in 1..Len(last.batch), j \in 1..RowsPerItem :
            SameVehicle(Added(RowsPerItem * (i - 1) + j), last.batch[i])

C5_Witness ==
  /\ last.op = "log_bulk_transfer" /\ last.raised /\ last.failAt = 2
  /\ Len(pre) > 0 /\ ledger = pre

\* C6: every row that was in the ledger before a call is in it afterwards, at the same
\* place and with every field unchanged, whether the call returned or raised; the ids
\* increase along the insertion order.
C6_AppendOnly ==
  /\ Len(pre) <= Len(ledger)
  /\ SubSeq(ledger, 1, Len(pre)) = pre
  /\ \A i, j \in 1..Len(ledger) : i < j => ledger[i].id < ledger[j].id

C6_Witness ==
  /\ Len(pre) = 2 /\ Len(ledger) = 4
  /\ ~last.raised /\ last.op = "log_bulk_inward"

\* The k-th added row is an INWARD_OEM row at dest received from source.
IsOemRow(k, dest, source, dt) ==
  LET r == Added(k)
  IN /\ r.Transaction_Type = INWARD_OEM
     /\ r.Current_Branch_ID = dest /\ r.Source_External = source
     /\ r.From_Branch_ID = NULL /\ r.To_Branch_ID = NULL
     /\ r.Date = dt

\* C7: a returned log_bulk_inward whose source is a branch id adds, for every item of
\* the batch, an OUTWARD_TRANSFER row at source with To_Branch_ID = destination and an
\* INWARD_TRANSFER row at destination with From_Branch_ID = source; one whose source
\* is no branch id adds, for every item, exactly one INWARD_OEM row at destination with
\* Source_External = source and no transfer row. log_inward_stock resolves the source
\* of its one item the same way.
C7_InwardSourceResolution ==
  /\ Returned({"log_bulk_inward"}) =>
       IF last.b \in Branches
       THEN /\ Len(ledger) = Len(pre) + 2 * Len(last.batch)
            /\ \A i \in 1..Len(last.batch) :
                 IsTransferPair(2 * i - 1, last.b, last.a, last.batch[i], last.date)
       ELSE /\ Len(ledger) = Len(pre) + Len(last.batch)
            /\ \A i \in 1..Len(last.batch) :
                 /\ IsOemRow(i, last.a, last.b, last.date)
                 /\ SameVehicle(Added(i), last.batch[i])
  /\ Returned({"log_inward_stock"}) =>
       IF last.b \in Branches
       THEN /\ Len(ledger) = Len(pre) + 2
            /\ IsTransferPair(1, last.b, last.a, last.batch[1], last.date)
       ELSE /\ Len(ledger) = Len(pre) + 1
            /\ IsOemRow(1, last.a, last.b, last.date)
            /\ Added(1).Quantity = last.batch[1].Quantity

C7_Witness ==
  /\ Returned({"log_bulk_inward"}) /\ last.b \in Branches /\ last.b # last.a
  /\ Len(last.batch) = 2 /\ last.batch[1] # last.batch[2]

\* The last call logged stock received from outside the branches.
IsOemCall ==
  \/ Returned({"log_bulk_inward"}) /\ last.b \notin Branches
  \/ Returned({"log_oem_inward"})

\* C8: a returned external inward (log_bulk_inward with a source that is no branch id,
\* log_oem_inward) at branch H raises the projected stock of each descriptor at H by
\* the quantities the batch holds of it, and leaves the projected stock of every other
\* (branch, descriptor) unchanged.
C8_OemInwardEffect ==
  IsOemCall =>
    \A b \in Branches, d \in Descriptors :
      Stock(ledger, b, d)
        = Stock(pre, b, d) + (IF b = last.a THEN BatchQty(last.batch, d) ELSE 0)

C8_Witness ==
  /\ Returned({"log_bulk_inward"}) /\ last.b = "HMSI (OEM)" /\ last.a = "H1"
  /\ Len(pre) = 1 /\ pre[1].Current_Branch_ID = "S1"
  /\ Len(last.batch) = 1 /\ last.batch[1].Quantity = 5
  /\ Stock(ledger, "H1", BaseDescriptor) = 5

\* C9: a returned transfer from branch A to a different branch B lowers A's projected
\* stock of each descriptor by the quantities the batch holds of it, raises B's by the
\* same, and leaves the total of the multi-branch stock query over {A, B} unchanged.
C9_TransferEffect ==
  (IsTransferCall /\ TransferFrom # TransferTo) =>
    \A d \in Descriptors :
      /\ Stock(ledger, TransferFrom, d)
           = Stock(pre, TransferFrom, d) - BatchQty(last.batch, d)
      /\ Stock(ledger, TransferTo, d)
           = Stock(pre, TransferTo, d) + BatchQty(last.batch, d)
      /\ MultiTotal(ledger, {TransferFrom, TransferTo}, d)
           = MultiTotal(pre, {TransferFrom, TransferTo}, d)

C9_Witness ==
  /\ Returned({"log_bulk_transfer"}) /\ last.a = "H1" /\ last.b = "S1"
  /\ Stock(pre, "H1", BaseDescriptor) = 5 /\ Stock(pre, "S1", BaseDescriptor) = 0
  /\ Stock(ledger, "H1", BaseDescriptor) = 3 /\ Stock(ledger, "S1", BaseDescriptor) = 2
  /\ MultiTotal(ledger, {"H1", "S1"}, BaseDescriptor) = 5

\* C10: a returned sale call (log_bulk_sales, log_sale) adds exactly one SALE row per
\* batch item at the selling branch, with the item's descriptor and quantity; it lowers
\* that branch's projected stock of each descriptor by the quantities the batch holds
\* of it and changes no other branch's stock; a descriptor whose net stock at the
\* branch is then 0 has no row in the multi-branch stock query of that branch.
C10_SaleEffect ==
  Returned({"log_bulk_sales", "log_sale"}) =>
    /\ Len(ledger) = Len(pre) + Len(last.batch)
    /\ \A i \in 1..Len(last.batch) :
         /\ Added(i).Transaction_Type = SALE
         /\ Added(i).Current_Branch_ID = last.a
         /\ Added(i).Date = last.date
         /\ SameVehicle(Added(i), last.batch[i])
    /\ \A b \in Branches, d \in Descriptors :
         Stock(ledger, b, d)
           = Stock(pre, b, d) - (IF b = last.a THEN BatchQty(last.batch, d) ELSE 0)
    /\ \A d \in Descriptors :
         Stock(ledger, last.a, d) = 0 =>
           ~ \E r \in GetMultiBranchStock(ledger, {last.a}) :
               <<r.Model, r.Variant, r.Color>> = d

C10_Witness ==
  /\ Returned({"log_bulk_sales"}) /\ last.a = "S1"
  /\ Stock(pre, "S1", BaseDescriptor) = 2
  /\ \E r \in GetMultiBranchStock(pre, {"S1"}) : r.Stock = 2
  /\ BatchQty(last.batch, BaseDescriptor) = 2
  /\ Stock(ledger, "S1", BaseDescriptor) = 0
  /\ GetMultiBranchStock(ledger, {"S1"}) = {}

\* The last call recorded a stock correction: log_stock_adjustment, or the owner's
\* confirmed correction that was passed on to it.
IsAdjustmentCall ==
  \/ Returned({"log_stock_adjustment"})
  \/ Returned({"confirm_stock_adjustment"}) /\ last.b = "Stock adjusted!"

\* C11: a returned stock correction of a non-zero delta adds exactly one ADJUSTMENT row
\* at the branch, holding the tuple and the signed delta as its quantity, and changes
\* the projected stock of that (branch, model, variant, color) by exactly the delta, so
\* that the projected stock is then the count the owner entered.
C11_AdjustmentEffect ==
  IsAdjustmentCall =>
    LET item == last.batch[1]
        d == <<item.Model, item.Variant, item.Color>>
    IN /\ Len(ledger) = Len(pre) + 1
       /\ Added(1).Transaction_Type = ADJUSTMENT
       /\ Added(1).Current_Branch_ID = last.a
       /\ SameVehicle(Added(1), item)
       /\ Stock(ledger, last.a, d) = Stock(pre, last.a, d) + item.Quantity

\* C12: the owner's correction whose entered count equals the count the system holds
\* (delta 0) adds no row to the ledger and leaves the result of every stock query as
\* it was.
C12_AdjustmentNoOp ==
  (Returned({"confirm_stock_adjustment"}) /\ last.batch[1].Quantity = 0) =>
    /\ ledger = pre
    /\ \A bs \in SUBSET Branches :
         GetMultiBranchStock(ledger, bs) = GetMultiBranchStock(pre, bs)

C12_Witness ==
  /\ Returned({"confirm_stock_adjustment"}) /\ last.batch[1].Quantity = 0
  /\ last.b = "No change."
  /\ Len(pre) = 1 /\ Stock(pre, last.a, BaseDescriptor) = 5

LastDate == CHOOSE d \in Dates : \A e \in Dates : e <= d

\* C14: without an as-of date the stock query counts all history; when the ledger
\* holds a row dated after the as-of date, the stock query of the stock view, called
\* with that date, returns without error the stock computed from exactly the rows
\* dated on or before it.
C14_AsOfProjection ==
  \A bs \in SUBSET Branches :
    /\ GetMultiBranchStock(ledger, bs) = GetMultiBranchStock(AsOf(ledger, LastDate), bs)
    /\ \A asOf \in Dates :
         (\E i \in 1..Len(ledger) : ledger[i].Date > asOf) =>
           StockViewQuery(ledger, bs, asOf)
             = [error |-> NULL, rows |-> GetMultiBranchStock(AsOf(ledger, asOf), bs)]

\* A step is a read call.
IsReadStep == view' # view /\ view'.query # "none"

IsEndpoint(t, branch_id) ==
  \/ t.Current_Branch_ID = branch_id
  \/ t.From_Branch_ID = branch_id
  \/ t.To_Branch_ID = branch_id

\* C16: when no ledger row matches, the single-item stock query returns 0, the
\* multi-branch stock query and the single-branch summary return an empty result, and
\* the recent-transactions query returns an empty result; none returns a null.
C16_NoDataReads ==
  /\ \A b \in Branches, d \in Descriptors :
       (~ \E i \in 1..Len(ledger) :
            /\ ledger[i].Current_Branch_ID = b
            /\ <<ledger[i].Model, ledger[i].Variant, ledger[i].Color>> = d) =>
         GetStockForSingleItem(ledger, b, d[1], d[2], d[3]) = 0
  /\ \A bs \in SUBSET Branches :
       (~ \E i \in 1..Len(ledger) : ledger[i].Current_Branch_ID \in bs) =>
         GetMultiBranchStock(ledger, bs) = {}
  /\ \A b \in Branches :
       /\ (~ \E i \in 1..Len(ledger) : ledger[i].Current_Branch_ID = b) =>
            GetCurrentStockSummary(ledger, b) = {}
       /\ (~ \E i \in 1..Len(ledger) : IsEndpoint(ledger[i], b)) =>
            \A limit \in {1, DefaultLimit} : GetRecentTransactions(ledger, b, limit) = <<>>

C16_Witness ==
  /\ Len(ledger) = 2
  /\ \A i \in 1..Len(ledger) : ~IsEndpoint(ledger[i], "S1")
  /\ GetMultiBranchStock(ledger, {"H1"}) # {}
  /\ GetMultiBranchStock(ledger, {"S1"}) = {}
  /\ GetRecentTransactions(ledger, "S1", DefaultLimit) = <<>>
  /\ GetStockForSingleItem(ledger, "S1", "Activa", "STD", "Red") = 0

\* The net quantity of the rows whose Current_Branch_ID is b and whose descriptor is
\* d, whatever their from and to branches.
RECURSIVE OwnRowsNet(_, _, _)
OwnRowsNet(db, b, d) ==
  IF db = <<>> THEN 0
  ELSE (IF /\ Head(db).Current_Branch_ID = b
           /\ <<Head(db).Model, Head(db).Variant, Head(db).Color>> = d
        THEN NetQuantity(Head(db)) ELSE 0) + OwnRowsNet(Tail(db), b, d)

\* C17: for every set of queried branches, the multi-branch stock query returns rows
\* of queried branches only, at most one row per (branch, model, variant, color), and
\* the Stock of the row of (b, d) is the net quantity of the rows whose
\* Current_Branch_ID is b (no row when that is 0): a row in which b is only the from
\* or the to branch adds nothing to b.
C17_SingleAttribution ==
  \A bs \in SUBSET Branches :
    LET result == GetMultiBranchStock(ledger, bs)
    IN /\ \A r \in result : \E b \in bs : r.Branch_Name = Branch_Name(b)
       /\ \A r1, r2 \in result :
            (/\ r1.Branch_Name = r2.Branch_Name /\ r1.Model = r2.Model
             /\ r1.Variant = r2.Variant /\ r1.Color = r2.Color) => r1 = r2
       /\ \A b \in bs, d \in Descriptors :
            LET rows == {r \in result : /\ r.Branch_Name = Branch_Name(b)
                                        /\ <<r.Model, r.Variant, r.Color>> = d}
            IN IF OwnRowsNet(ledger, b, d) = 0 THEN rows = {}
               ELSE \E r \in rows : r.Stock = OwnRowsNet(ledger, b, d)

C17_Witness ==
  /\ Len(ledger) = 3
  /\ ledger[1].Transaction_Type = INWARD_OEM /\ ledger[1].Current_Branch_ID = "H1"
  /\ ledger[1].Quantity = 5
  /\ ledger[2].Transaction_Type = OUTWARD_TRANSFER /\ ledger[2].Current_Branch_ID = "H1"
  /\ ledger[2].To_Branch_ID = "S1" /\ ledger[2].Quantity = 2
  /\ ledger[3].Transaction_Type = INWARD_TRANSFER /\ ledger[3].Current_Branch_ID = "S1"
  /\ GetMultiBranchStock(ledger, {"S1"})
       = {[Branch_Name |-> "Sub One", Model |-> "Activa", Variant |-> "STD",
           Color |-> "Red", Stock |-> 2]}
  /\ Cardinality(GetMultiBranchStock(ledger, {"H1", "S1"})) = 2

\* The set of the rows of a sequence.
Range(seq) == {seq[i] : i \in 1..Len(seq)}

\* C18: the recent-transactions query of a branch returns, within its cap, exactly the
\* rows in which the branch is the current, the from or the to branch; and called as
\* the stock view calls it, with a set of branch ids and a date range (none given
\* here), it returns without error the rows in which a branch of the set is an
\* endpoint.
C18_EndpointVisibility ==
  /\ \A b \in Branches :
       Range(GetRecentTransactions(ledger, b, DefaultLimit))
         = {t \in Range(ledger) : IsEndpoint(t, b)}
  /\ \A selected_ids \in SUBSET Branches :
       (\E t \in Range(ledger), b \in selected_ids : IsEndpoint(t, b)) =>
         LET shown == RecentActivityQuery(ledger, selected_ids, NULL, NULL)
         IN /\ shown.error = NULL
            /\ Range(shown.rows)
                 = {t \in Range(ledger) : \E b \in selected_ids : IsEndpoint(t, b)}

\* The limits a caller passes: small ones, and none (the default).
Limits == {1, 2, DefaultLimit}

\* Row r is more recent than row t: dated later, or dated the same and inserted later.
MoreRecent(r, t) == r.Date > t.Date \/ (r.Date = t.Date /\ r.id > t.id)

\* C19: the result of the recent-transactions query is ordered by date descending and,
\* within a date, by id descending; it holds the matching rows up to the limit (50
\* when the caller gives none), and every matching row it omits is less recent than
\* every row it returns.
C19_RecentOrderingAndCap ==
  \A b \in Branches, limit \in Limits :
    LET result == GetRecentTransactions(ledger, b, limit)
        matching == {t \in Range(ledger) : IsEndpoint(t, b)}
    IN /\ Len(result) = (IF Cardinality(matching) < limit
                         THEN Cardinality(matching) ELSE limit)
       /\ Range(result) \subseteq matching
       /\ \A i, j \in 1..Len(result) : i < j => MoreRecent(result[i], result[j])
       /\ \A t \in matching \ Range(result), r \in Range(result) : MoreRecent(r, t)

C19_Witness ==
  /\ Len(ledger) = 3
  /\ \A i \in 1..3 : IsEndpoint(ledger[i], "S1")
  /\ ledger[1].Date = 2 /\ ledger[2].Date = 1 /\ ledger[3].Date = 1
  /\ GetRecentTransactions(ledger, "S1", 2) = <<ledger[1], ledger[3]>>
  /\ Len(GetRecentTransactions(ledger, "S1", DefaultLimit)) = 3

Subs(hier) == {e.Sub_Branch_ID : e \in hier}

Children(hier, h) == {e.Sub_Branch_ID : e \in {x \in hier : x.Parent_Branch_ID = h}}

\* C21: whatever rows the store has accepted into the hierarchy, no branch returned by
\* get_head_branches is the Sub_Branch_ID of a row of the hierarchy.
C21_HeadsAreNotSubs ==
  view.query = "get_head_branches" =>
    \A b \in view.result : b \notin Subs(hierarchy)

\* C22: for every branch h of table branches, get_managed_branches(h) holds h and
\* exactly the branches whose parent is h: h is in the result, every child of h is in
\* it, and no branch with another parent or with no parent is in it.
C22_ManagedSet ==
  (view.query = "get_managed_branches" /\ view.args[1] \in BranchTable) =>
    LET h == view.args[1]
    IN /\ view.result.error = NULL
       /\ Range(view.result.rows) = {h} \cup Children(hierarchy, h)
       /\ h \in Range(view.result.rows)
       /\ \A b \in Range(view.result.rows) \ {h} :
            [Sub_Branch_ID |-> b, Parent_Branch_ID |-> h] \in hierarchy

C22_Witness ==
  /\ view.query = "get_managed_branches"
  /\ view.args = <<"H1">>
  /\ hierarchy = {[Sub_Branch_ID |-> "S1", Parent_Branch_ID |-> "H1"],
                  [Sub_Branch_ID |-> "S2", Parent_Branch_ID |-> "S1"]}
  /\ view.result.rows = <<"H1", "S1">>

\* C23: get_managed_branches called with an id that is no row of table branches fails
\* with NotFound and returns no list.
C23_UnknownHeadNotFound ==
  (view.query = "get_managed_branches" /\ view.args[1] \notin BranchTable) =>
    view.result.error = "NotFound"

\* C24: in every hierarchy the store has accepted, each branch has at most one parent,
\* and no branch that is a sub-branch is the parent of a branch (so no branch is its
\* own parent and there is no cycle).
C24_TwoLevelHierarchy ==
  /\ \A e1, e2 \in hierarchy : e1.Sub_Branch_ID = e2.Sub_Branch_ID => e1 = e2
  /\ \A e \in hierarchy : e.Parent_Branch_ID \notin Subs(hierarchy)

\* The record a workflow call was about, before and after the call.
OldSale == pre_sales[last_sale.sale_id]
NewSale == sales_records[last_sale.sale_id]

IsSaleCall(op) == last_sale.op = op /\ last_sale.sale_id \in SaleIds

\* C25: assign_pdi_mechanic on a record that awaits assignment sets pdi_assigned_to to
\* the mechanic and the status to 'PDI In Progress'; on a record in any other status it
\* changes neither the status nor the assignee.
C25_AssignGuard ==
  IsSaleCall("assign_pdi_mechanic") =>
    IF OldSale.fulfillment_status = PDI_PENDING
    THEN /\ NewSale.pdi_assigned_to = last_sale.arg
         /\ NewSale.fulfillment_status = PDI_IN_PROGRESS
    ELSE /\ NewSale.fulfillment_status = OldSale.fulfillment_status
         /\ NewSale.pdi_assigned_to = OldSale.pdi_assigned_to

\* C26: complete_pdi on a record in 'PDI In Progress' with a non-empty chassis number
\* stores the chassis number and the completion time and sets the status to
\* 'PDI Complete'; on a record in any other status, or with an empty chassis number,
\* it fails and leaves chassis_no, pdi_completion_date and the status as they were.
C26_CompletePdiGuard ==
  IsSaleCall("complete_pdi") =>
    IF OldSale.fulfillment_status = PDI_IN_PROGRESS /\ last_sale.arg # ""
    THEN /\ last_sale.raised = NULL
         /\ NewSale.chassis_no = last_sale.arg
         /\ NewSale.pdi_completion_date = last_sale.n
         /\ NewSale.fulfillment_status = PDI_COMPLETE
    ELSE /\ last_sale.raised # NULL
         /\ NewSale.chassis_no = OldSale.chassis_no
         /\ NewSale.pdi_completion_date = OldSale.pdi_completion_date
         /\ NewSale.fulfillment_status = OldSale.fulfillment_status

\* C27: after update_insurance_tr_status has applied its updates to a record, the
\* status is 'TR Done' if is_tr_done is now true (whatever is_insurance_done is),
\* 'Insurance Done' if only is_insurance_done is true, and the status the record had
\* before the call if neither flag is true; each flag named by the updates has the
\* value given, each other flag the value it had.
C27_ComplianceStatus ==
  IsSaleCall("update_insurance_tr_status") =>
    /\ \A flag \in {"is_insurance_done", "is_tr_done"} :
         NewSale[flag] = IF flag \in DOMAIN last_sale.arg THEN last_sale.arg[flag]
                         ELSE OldSale[flag]
    /\ NewSale.fulfillment_status =
         IF NewSale.is_tr_done THEN TR_DONE
         ELSE IF NewSale.is_insurance_done THEN INSURANCE_DONE
         ELSE OldSale.fulfillment_status

C27_Witness ==
  /\ IsSaleCall("update_insurance_tr_status")
  /\ OldSale.fulfillment_status = PDI_COMPLETE
  /\ last_sale.arg = [k \in {"is_insurance_done", "is_tr_done"} |-> TRUE]
  /\ NewSale.fulfillment_status = TR_DONE
  /\ NewSale.is_insurance_done

\* The place of a status in the order of the workflow.
Rank(status) ==
  CASE status = PDI_PENDING -> 0
    [] status = PDI_IN_PROGRESS -> 1
    [] status = PDI_COMPLETE -> 2
    [] status = INSURANCE_DONE -> 3
    [] status = TR_DONE -> 4

\* C28: no call of assign_pdi_mechanic, complete_pdi or update_insurance_tr_status
\* moves the status of a record to an earlier status of the order Pending < PDI In
\* Progress < PDI Complete < Insurance Done < TR Done, and none changes the status of a
\* record that is in 'TR Done'.
C28_IrreversibleWorkflow ==
  \A id \in SaleIds :
    /\ Rank(sales_records[id].fulfillment_status) >= Rank(pre_sales[id].fulfillment_status)
    /\ pre_sales[id].fulfillment_status = TR_DONE =>
         sales_records[id].fulfillment_status = TR_DONE

\* C29: assign_pdi_mechanic, complete_pdi and update_insurance_tr_status called with
\* an id that no record has leave every record as it was and raise nothing.
C29_MissingSaleRecord ==
  (last_sale.op # "none" /\ last_sale.sale_id \notin SaleIds) =>
    /\ sales_records = pre_sales
    /\ last_sale.raised = NULL

C29_Witness ==
  /\ last_sale.op = "complete_pdi"
  /\ last_sale.sale_id = UnknownSaleId
  /\ last_sale.arg = "CH2"
  /\ sales_records[7].fulfillment_status = PDI_IN_PROGRESS
  /\ sales_records[8].fulfillment_status = PDI_PENDING

\* The managed set of a branch: the branch and its sub-branches.
ManagedSet(h) == {h} \cup Children(hierarchy, h)

\* C30: a transfer whose destination is not in the managed set of the
\* branch it starts from fails and adds no row to the ledger.
C30_DestinationRestriction ==
  (last.op \in {"log_bulk_transfer", "submit_transfer"} /\ Len(pre) < Len(ledger)) =>
    Added(2).Current_Branch_ID \in ManagedSet(Added(1).Current_Branch_ID)

\* C30, amended: every transfer written through the transfer form goes from the
\* selected head branch, a parent in the hierarchy, to a branch whose parent is that
\* head: never to the head itself and never to a branch with another parent. Each
\* pair of rows it adds carries these two branches.
C30_FormDestinationRestriction ==
  Returned({"submit_transfer"}) =>
    /\ \E e \in hierarchy : e.Parent_Branch_ID = last.a
    /\ [Sub_Branch_ID |-> last.b, Parent_Branch_ID |-> last.a] \in hierarchy
    /\ last.b # last.a
    /\ \A e \in hierarchy : e.Sub_Branch_ID = last.b => e.Parent_Branch_ID = last.a
    /\ Len(ledger) = Len(pre) + 2 * Len(last.batch)
    /\ \A k \in 1..Len(last.batch) :
         IsTransferPair(2 * k - 1, last.a, last.b, last.batch[k], last.date)

C30_Witness ==
  /\ Returned({"submit_transfer"})
  /\ hierarchy = {[Sub_Branch_ID |-> "S1", Parent_Branch_ID |-> "H1"],
                  [Sub_Branch_ID |-> "S2", Parent_Branch_ID |-> "S1"],
                  [Sub_Branch_ID |-> "H1", Parent_Branch_ID |-> "H1"]}
  /\ last.a = "H1" /\ last.b = "S1"
  /\ Len(ledger) = 4

\* C31: every ledger row, whichever operation wrote it, holds its model, variant and
\* color in uppercase.
C31_CaseNormalization ==
  \A i \in 1..Len(ledger) :
    /\ ledger[i].Model = Upper(ledger[i].Model)
    /\ ledger[i].Variant = Upper(ledger[i].Variant)
    /\ ledger[i].Color = Upper(ledger[i].Color)

\* C35: no outflow is checked against the stock: a returned sale or transfer call adds
\* its rows whatever the stock of the branch it takes from, so a negative projected
\* stock is reachable; and every (branch, descriptor) whose projected stock is
\* negative is listed by the multi-branch stock query of that branch, in one row that
\* carries the negative quantity.
C35_NoStockCheckOnOutflow ==
  /\ Returned({"log_sale", "log_bulk_sales", "log_transfer", "log_bulk_transfer"}) =>
       /\ Len(ledger) > Len(pre)
       /\ (last.op \in {"log_sale", "log_bulk_sales"} \/ last.a # last.b) =>
            \A d \in Descriptors :
              Stock(ledger, last.a, d) = Stock(pre, last.a, d) - BatchQty(last.batch, d)
  /\ \A b \in Branches, d \in Descriptors :
       Stock(ledger, b, d) < 0 =>
         /\ [Branch_Name |-> Branch_Name(b), Model |-> d[1], Variant |-> d[2],
             Color |-> d[3], Stock |-> Stock(ledger, b, d)]
              \in GetMultiBranchStock(ledger, Branches)
         /\ Cardinality({r \in GetMultiBranchStock(ledger, Branches) :
                           /\ r.Branch_Name = Branch_Name(b)
                           /\ <<r.Model, r.Variant, r.Color>> = d}) = 1

C35_Witness ==
  /\ Returned({"log_sale"}) /\ last.a = "S1"
  /\ Stock(pre, "S1", BaseDescriptor) = 0
  /\ Stock(ledger, "S1", BaseDescriptor) = -5
  /\ \E r \in GetMultiBranchStock(ledger, {"H1", "S1"}) :
       r.Branch_Name = Branch_Name("S1") /\ r.Stock = -5

\* C37: a SALE row and an INWARD_OEM row have neither a from-branch nor a to-branch;
\* an OUTWARD_TRANSFER row has its to-branch set; an INWARD_TRANSFER row has its
\* from-branch set; the external source is set on INWARD_OEM rows only.
C37_TransferLinkageFields ==
  \A i \in 1..Len(ledger) :
    LET t == ledger[i]
    IN /\ t.Transaction_Type \in {SALE, INWARD_OEM} =>
            t.From_Branch_ID = NULL /\ t.To_Branch_ID = NULL
       /\ t.Transaction_Type = OUTWARD_TRANSFER => t.To_Branch_ID \in Branches
       /\ t.Transaction_Type = INWARD_TRANSFER => t.From_Branch_ID \in Branches
       /\ t.Source_External # NULL => t.Transaction_Type = INWARD_OEM

C37_Witness ==
  /\ \E i \in 1..Len(ledger) :
       ledger[i].Transaction_Type = INWARD_OEM /\ ledger[i].Source_External # NULL
  /\ \E i \in 1..Len(ledger) : ledger[i].Transaction_Type = OUTWARD_TRANSFER
  /\ \E i \in 1..Len(ledger) : ledger[i].Transaction_Type = INWARD_TRANSFER

\* The positions of the ledger's rows of one type.
RowsOfType(type) == {i \in 1..Len(ledger) : ledger[i].Transaction_Type = type}

\* The inward row at n is the counterpart of the outward row at o.
Counterpart(o, n) ==
  /\ ledger[n].Current_Branch_ID = ledger[o].To_Branch_ID
  /\ ledger[n].From_Branch_ID = ledger[o].Current_Branch_ID
  /\ ledger[n].Date = ledger[o].Date
  /\ ledger[n].Model = ledger[o].Model
  /\ ledger[n].Variant = ledger[o].Variant
  /\ ledger[n].Color = ledger[o].Color
  /\ ledger[n].Quantity = ledger[o].Quantity

\* C38: in every reachable state, also after a write that failed, the OUTWARD_TRANSFER
\* rows and the INWARD_TRANSFER rows are in one-to-one correspondence: each outward
\* row has its own inward row at the destination branch, coming from the sending
\* branch, with the same date, model, variant, color and quantity, and no inward row
\* is left over.
C38_PairMatching ==
  \E f \in [RowsOfType(OUTWARD_TRANSFER) -> RowsOfType(INWARD_TRANSFER)] :
    /\ \A o \in RowsOfType(OUTWARD_TRANSFER) : Counterpart(o, f[o])
    /\ \A o1, o2 \in RowsOfType(OUTWARD_TRANSFER) : f[o1] = f[o2] => o1 = o2
    /\ \A n \in RowsOfType(INWARD_TRANSFER) :
         \E o \in RowsOfType(OUTWARD_TRANSFER) : f[o] = n

C38_Witness ==
  /\ last.raised /\ last.op \in {"log_transfer", "log_bulk_transfer", "log_bulk_inward"}
  /\ last.failAt = 2
  /\ Cardinality(RowsOfType(OUTWARD_TRANSFER)) = 1
  /\ Cardinality(RowsOfType(INWARD_TRANSFER)) = 1
  /\ ledger = pre

\* C34: after a returned transfer from branch A to branch B on date d, the daily
\* transfer summary holds a row (d, A's name, B's name), and its Total_Qty is the sum
\* of the quantities of all the transfers from A to B on d in the ledger, each counted
\* once.
C34_DailyTransferSummary ==
  IsTransferCall =>
    \A R \in GetDailyTransferSummary(ledger, DefaultSummaryLimit) :
      \E r \in R :
        /\ r.Date = last.date
        /\ r.From_Branch = Branch_Name(TransferFrom)
        /\ r.To_Branch = Branch_Name(TransferTo)
        /\ r.Total_Qty = SumQuantity(SelectSeq(ledger, LAMBDA t :
                           /\ t.Transaction_Type = OUTWARD_TRANSFER
                           /\ t.Date = last.date
                           /\ t.Current_Branch_ID = TransferFrom
                           /\ t.To_Branch_ID = TransferTo))

\* C39: a mechanic's task list is exactly the records assigned to the mechanic whose
\* status is 'PDI In Progress', of the given branch only when a branch is given.  A
\* record is in the list of the mechanic it was just assigned to, is in no list after
\* its PDI was completed, and is never in the lists of two mechanics at once.
C39_MechanicQueue ==
  /\ \A m \in Mechanics, b \in {NULL, ""} \cup Branches, id \in SaleIds :
       sales_records[id] \in GetSalesRecordsForMechanic(sales_records, m, b)
         <=> /\ sales_records[id].pdi_assigned_to = m
             /\ sales_records[id].fulfillment_status = PDI_IN_PROGRESS
             /\ b \in Branches => sales_records[id].Branch_ID = b
  /\ \A m \in Mechanics, b \in {NULL, ""} \cup Branches :
       GetSalesRecordsForMechanic(sales_records, m, b)
         \subseteq {sales_records[id] : id \in SaleIds}
  /\ IsSaleCall("assign_pdi_mechanic") =>
       \A m \in Mechanics :
         NewSale \in GetSalesRecordsForMechanic(sales_records, m, NewSale.Branch_ID)
           <=> m = last_sale.arg
  /\ IsSaleCall("complete_pdi") =>
       \A m \in Mechanics, b \in {NULL, ""} \cup Branches :
         NewSale \notin GetSalesRecordsForMechanic(sales_records, m, b)
  /\ \A m1, m2 \in Mechanics :
       m1 # m2 => GetSalesRecordsForMechanic(sales_records, m1, NULL)
                    \cap GetSalesRecordsForMechanic(sales_records, m2, NULL) = {}

C39_Witness ==
  /\ IsSaleCall("complete_pdi") /\ last_sale.sale_id = 7
  /\ OldSale \in GetSalesRecordsForMechanic(pre_sales, "mech_a", "H1")
  /\ GetSalesRecordsForMechanic(sales_records, "mech_a", NULL) = {}
  /\ GetSalesRecordsForMechanic(sales_records, "mech_b", "S1") = {sales_records[8]}
  /\ GetSalesRecordsForMechanic(sales_records, "mech_b", "H1") = {}

C36_PendingBatchLifecycle ==
  /\ \A key \in BatchKeys :
       st.session_state[key] # st.run.before[key] =>
         \/ /\ st.session_state[key] = <<>>
            /\ st.run.key = key
            /\ \/ st.run.event = "clear"
               \/ st.run.event = "submit" /\ st.run.message = "success"
         \/ /\ st.run.event = "add" /\ st.run.key = key
            /\ st.session_state[key] = st.run.before[key] \o st.run.batch
            /\ Len(st.run.batch) = 1
  /\ (st.run.event = "submit" /\ st.run.message # "success") =>
       /\ last.raised
       /\ ledger = pre
       /\ st.session_state = st.run.before
       /\ st.session_state[st.run.key] = st.run.batch
  /\ (st.run.event = "submit" /\ st.run.message = "success") =>
       /\ st.run.batch = st.run.before[st.run.key] /\ st.run.batch # <<>>
       /\ st.session_state = [st.run.before EXCEPT ![st.run.key] = <<>>]
       /\ IF \/ last.op = "log_bulk_transfer"
             \/ last.op = "log_bulk_inward" /\ last.b \in Branches
          THEN /\ Len(ledger) = Len(pre) + 2 * Len(st.run.batch)
               /\ \A k \in 1..Len(st.run.batch) :
                    /\ SameVehicle(Added(2 * k - 1), st.run.batch[k])
                    /\ SameVehicle(Added(2 * k), st.run.batch[k])
          ELSE /\ Len(ledger) = Len(pre) + Len(st.run.batch)
               /\ \A k \in 1..Len(st.run.batch) :
                    SameVehicle(Added(k), st.run.batch[k])

C36_Witness ==
  /\ st.run.event = "submit" /\ st.run.message = "success" /\ st.run.retry
  /\ st.run.key = "transfer_batch"
  /\ Len(st.run.batch) = 2
  /\ Len(ledger) = 4 /\ pre = <<>>
  /\ st.session_state["transfer_batch"] = <<>>

\* The rows of the sessions whose transaction is committed.
CommittedRows ==
  (IF sessions.txn["A"].state = "committed" THEN sessions.txn["A"].inserted ELSE <<>>)
    \o (IF sessions.txn["B"].state = "committed" THEN sessions.txn["B"].inserted
        ELSE <<>>)

\* C33: while two sessions write a batch each, the table that a concurrent read
\* queries holds, of each batch, every row when its transaction is committed and no
\* row otherwise, so the stock that is read is the stock of the committed batches
\* and every OUTWARD_TRANSFER row in it has its INWARD_TRANSFER row; once both
\* transactions are committed the ledger holds every row of both batches, each once.
C33_ConcurrentBatches ==
  /\ \A s \in DbSessions :
       LET t == sessions.txn[s]
       IN \A k \in 1..Len(t.inserted) :
            (t.inserted[k] \in Range(ledger)) <=> t.state = "committed"
  /\ \A s \in DbSessions :
       sessions.txn[s].state = "committed" =>
         Len(sessions.txn[s].inserted)
           = IF sessions.txn[s].op = "log_bulk_transfer"
                \/ (sessions.txn[s].op = "log_bulk_inward"
                    /\ sessions.txn[s].b \in Branches)
             THEN 2 * Len(sessions.txn[s].batch) ELSE Len(sessions.txn[s].batch)
  /\ Len(ledger) = Len(CommittedRows)
  /\ \A i, j \in 1..Len(ledger) : ledger[i].id = ledger[j].id => i = j
  /\ \A bs \in SUBSET Branches :
       GetMultiBranchStock(ledger, bs) = GetMultiBranchStock(CommittedRows, bs)
  /\ view.query = "get_multi_branch_stock" =>
       view.result = GetMultiBranchStock(CommittedRows, view.args[1])
  /\ \A o \in RowsOfType(OUTWARD_TRANSFER) :
       \E n \in RowsOfType(INWARD_TRANSFER) : Counterpart(o, n)

C33_Witness ==
  /\ sessions.txn["A"].state = "committed" /\ sessions.txn["B"].state = "committed"
  /\ sessions.txn["A"].op = "log_bulk_transfer"
  /\ sessions.txn["B"].op = "log_bulk_inward" /\ sessions.txn["B"].b \in Branches
  /\ sessions.txn["A"].inserted[1].id = 1 /\ sessions.txn["A"].inserted[2].id = 3
  /\ ledger[1].id = 2
  /\ Len(ledger) = 4
  /\ view.query = "get_multi_branch_stock"

====
